---------------------------- MODULE Spec2Model ----------------------------
(***************************************************************************)
(* A model of the text-candidate classification and field-extraction       *)
(* pipeline of the nutriai scrapers: the per-element callbacks that filter, *)
(* gate and assemble a record from an element's innerText, the dedup loops  *)
(* that follow them, and the persistence loops that save the records.       *)
(*                                                                          *)
(* Texts are TLA+ strings, handled character by character: a regular        *)
(* expression of the source is a set of literal alternatives (matched as    *)
(* substrings of the lower-cased text, which is what the /i flag does on    *)
(* these alphabets) plus, where an alternative has metacharacters, a        *)
(* sequence of items matched by MatchFrom.                                  *)
(***************************************************************************)
EXTENDS Integers, Sequences, FiniteSets, TLC

VARIABLES
  scraper,        \* the function that runs
  pc,             \* where it is
  text,           \* element.innerText of the element a callback is given
  index,          \* the index forEach passes with it
  record,         \* what the callback pushed for it (NoRecord: nothing)
  results,        \* the records the callbacks of one page pushed, in order
  unique,         \* what page.evaluate returns for them
  urls,           \* the pages still to scrape, each the results of its callbacks
  allRestaurants, \* the records gathered over the URLs
  restaurants,    \* the restaurants a run saves, with their menu items
  r,              \* the restaurant the run is at
  item,           \* the menu item of it the run is at
  attempts,       \* the db.execute calls made so far, in order
  job,            \* processed restaurants and status of the scraping job
  allElements,    \* the texts of the elements of a page, in the order of the page
  failures,       \* the requests and statements of the run that failed
  cityIndex,      \* the city scrapeRestaurantData is at
  nextPageToken,  \* next_page_token of the last response, or null
  pages,          \* the requests findRestaurantsByLocation made for the city
  places,         \* restaurants.length: the places found in the city
  placeIndex,     \* the places of the city gone through
  totalRestaurants,
  totalProcessed,
  last,           \* the last thing done about the API: a request or the delay
  apiKey,         \* whether CONFIG.TWOCAPTCHA_API_KEY is set
  submitData,     \* submitResponse.data
  poll,           \* the polls of solveCaptcha so far
  resultData,     \* resultResponse.data of the last poll
  returned,       \* what solveCaptcha returned
  browser,        \* the browser of the extraction function
  closes,         \* the calls of browser.close()
  urlIndex,       \* the urls of extractAllRestaurantsFromArea gone through
  outcome,        \* how the extraction function ended
  rows,           \* the rows of the table restaurants
  selection       \* the ids of the rows scrapeMenuData selected and has not gone through

callbackVars == <<text, index, record>>
dedupVars == <<results, unique>>
runVars == <<urls, allRestaurants>>
persistVars == <<restaurants, r, item, attempts, job>>
placesVars ==
  <<failures, cityIndex, nextPageToken, pages, places, placeIndex, totalRestaurants, totalProcessed, last>>
captchaVars == <<apiKey, submitData, poll, resultData, returned>>
browserVars == <<browser, closes, urlIndex, outcome>>
tableVars == <<rows, selection>>
pageVars == <<allElements, placesVars, captchaVars, browserVars, tableVars>>
vars == <<scraper, pc, callbackVars, dedupVars, runVars, persistVars, pageVars>>

---------------------------------------------------------------------------
(* Strings *)

Min(a, b) == IF a < b THEN a ELSE b
Max(a, b) == IF a > b THEN a ELSE b

CharAt(s, i) == SubSeq(s, i, i)

UpperCase == <<"A", "B", "C", "D", "E", "F", "G", "H", "I", "J", "K", "L", "M",
               "N", "O", "P", "Q", "R", "S", "T", "U", "V", "W", "X", "Y", "Z">>
LowerCase == <<"a", "b", "c", "d", "e", "f", "g", "h", "i", "j", "k", "l", "m",
               "n", "o", "p", "q", "r", "s", "t", "u", "v", "w", "x", "y", "z">>
Digits == {"0", "1", "2", "3", "4", "5", "6", "7", "8", "9"}
Whitespace == {" ", "\n", "\t", "\r"}

Range(f) == {f[i] : i \in DOMAIN f}

LowerChar(c) ==
  IF c \in Range(UpperCase)
  THEN LowerCase[CHOOSE i \in 1..26 : UpperCase[i] = c]
  ELSE c

\* String.prototype.toLowerCase
RECURSIVE toLowerCase(_)
toLowerCase(s) ==
  IF Len(s) <= 1 THEN LowerChar(s)
  ELSE LET h == Len(s) \div 2
       IN  toLowerCase(SubSeq(s, 1, h)) \o toLowerCase(SubSeq(s, h + 1, Len(s)))

RECURSIVE TrimStart(_)
TrimStart(s) ==
  IF s # "" /\ CharAt(s, 1) \in Whitespace THEN TrimStart(SubSeq(s, 2, Len(s))) ELSE s

RECURSIVE TrimEnd(_)
TrimEnd(s) ==
  IF s # "" /\ CharAt(s, Len(s)) \in Whitespace
  THEN TrimEnd(SubSeq(s, 1, Len(s) - 1)) ELSE s

\* String.prototype.trim
trim(s) == TrimEnd(TrimStart(s))

\* String.prototype.substring(0, n)
substring0(s, n) == SubSeq(s, 1, Min(n, Len(s)))

\* String.prototype.substring(n)
substringFrom(s, n) == SubSeq(s, n + 1, Len(s))

StartsAt(s, i, w) == i + Len(w) - 1 <= Len(s) /\ SubSeq(s, i, i + Len(w) - 1) = w

\* String.prototype.includes
includes(s, w) == \E i \in 1..(Len(s) - Len(w) + 1) : SubSeq(s, i, i + Len(w) - 1) = w

\* String.prototype.indexOf, 1-based; 0 when absent
IndexOf(s, w) ==
  IF includes(s, w)
  THEN CHOOSE i \in 1..(Len(s) - Len(w) + 1) :
         /\ StartsAt(s, i, w)
         /\ \A j \in 1..(i - 1) : ~StartsAt(s, j, w)
  ELSE 0

\* String.prototype.split(sep) for a non-empty separator
RECURSIVE split(_, _)
split(s, sep) ==
  LET i == IndexOf(s, sep)
  IN  IF i = 0 THEN <<s>>
      ELSE <<SubSeq(s, 1, i - 1)>> \o split(SubSeq(s, i + Len(sep), Len(s)), sep)

\* Array.prototype.filter(line => line.trim().length > n)
RECURSIVE filterTrimmedLonger(_, _)
filterTrimmedLonger(seq, n) ==
  IF seq = <<>> THEN <<>>
  ELSE (IF Len(trim(Head(seq))) > n THEN <<Head(seq)>> ELSE <<>>)
         \o filterTrimmedLonger(Tail(seq), n)

\* Array.prototype.join(" ")
RECURSIVE join(_)
join(seq) ==
  IF seq = <<>> THEN ""
  ELSE IF Len(seq) = 1 THEN seq[1]
  ELSE seq[1] \o " " \o join(Tail(seq))

\* replace(/[^...]/g, " "): every character outside the class becomes a space
RECURSIVE ReplaceOutside(_, _)
ReplaceOutside(s, allowed) ==
  IF s = "" THEN ""
  ELSE IF Len(s) = 1 THEN (IF s \in allowed THEN s ELSE " ")
  ELSE LET h == Len(s) \div 2
       IN  ReplaceOutside(SubSeq(s, 1, h), allowed)
             \o ReplaceOutside(SubSeq(s, h + 1, Len(s)), allowed)

---------------------------------------------------------------------------
(* Regular expressions *)

\* An item of a pattern: a character class repeated lo..hi times (hi = -1: no
\* upper limit).  A class is a single character (itself), or DIGIT (\d), WS
\* (\s), ANY (.), ALPHA ([a-z] under /i); any other name matches nothing.
One(c) == [cls |-> c, lo |-> 1, hi |-> 1]
Opt(c) == [cls |-> c, lo |-> 0, hi |-> 1]
Star(c) == [cls |-> c, lo |-> 0, hi |-> -1]
Plus(c) == [cls |-> c, lo |-> 1, hi |-> -1]
Rep(c, lo, hi) == [cls |-> c, lo |-> lo, hi |-> hi]
BS == "\\"

InClass(ch, cls) ==
  CASE cls = "DIGIT" -> ch \in Digits
    [] cls = "WS"    -> ch \in Whitespace
    [] cls = "ANY"   -> ch \notin {"\n", "\r"}
    [] cls = "ALPHA" -> ch \in Range(LowerCase) \cup Range(UpperCase)
    [] OTHER         -> ch = cls

\* The positions just after a match of items k.. of pat that starts at i
RECURSIVE MatchEnds(_, _, _, _)
MatchEnds(pat, k, s, i) ==
  IF k > Len(pat) THEN {i}
  ELSE UNION { MatchEnds(pat, k + 1, s, i + n) :
                 n \in { m \in pat[k].lo ..
                                (IF pat[k].hi < 0 THEN Len(s) - i + 1
                                 ELSE Min(pat[k].hi, Len(s) - i + 1)) :
                           \A j \in 0..(m - 1) : InClass(CharAt(s, i + j), pat[k].cls) } }

\* pat matches somewhere in s (anchored at the start with a, at the end with z)
MatchFrom(pat, s, a, z) ==
  \E i \in (IF a THEN {1} ELSE 1..(Len(s) + 1)) :
    \E e \in MatchEnds(pat, 1, s, i) : z => e = Len(s) + 1

\* RegExp.prototype.test of a case-insensitive regex whose literal
\* alternatives are lits and whose other alternatives are pats
test(lits, pats, s) ==
  LET l == toLowerCase(s)
  IN  \/ \E w \in lits : includes(l, w)
      \/ \E p \in pats : MatchFrom(p.items, l, p.a, p.z)

Alt(items) == [items |-> items, a |-> FALSE, z |-> FALSE]

\* A literal word as a pattern
Lit(w) == [i \in 1..Len(w) |-> One(CharAt(w, i))]

\* A pattern with a capture group: before (group opt?) after, opt being the
\* optional tail (?:...)? of the group
Pattern(before, group, opt, after) ==
  [before |-> before, group |-> group, opt |-> opt, after |-> after]

\* The rest of p (its group, with or without opt, and after) matches at c
RestMatches(p, s, c) ==
  \/ MatchEnds(p.group \o p.opt \o p.after, 1, s, c) # {}
  \/ MatchEnds(p.group \o p.after, 1, s, c) # {}

\* The positions where a match of p in s starts
MatchStarts(p, s) ==
  { i \in 1..(Len(s) + 1) : \E c \in MatchEnds(p.before, 1, s, i) : RestMatches(p, s, c) }

Least(S) == CHOOSE x \in S : \A y \in S : x <= y
Greatest(S) == CHOOSE x \in S : \A y \in S : y <= x

\* Where the group of the leftmost match of p starts and ends: the
\* quantifiers of these patterns are greedy runs of one class, so the
\* group starts and ends as late as the rest of the pattern allows
GroupStart(p, s) ==
  Greatest({ c \in MatchEnds(p.before, 1, s, Least(MatchStarts(p, s))) : RestMatches(p, s, c) })

GroupEnd(p, s) ==
  Greatest({ e \in MatchEnds(p.group \o p.opt, 1, s, GroupStart(p, s))
                     \cup MatchEnds(p.group, 1, s, GroupStart(p, s)) :
               MatchEnds(p.after, 1, s, e) # {} })

\* String.prototype.match(p) is not null, for p with the flag i
matches(p, s) == MatchStarts(p, toLowerCase(s)) # {}

\* match[1] of String.prototype.match(p), for p with the flag i
Capture(p, s) ==
  LET l == toLowerCase(s) IN SubSeq(s, GroupStart(p, l), GroupEnd(p, l) - 1)

\* The same for a pattern without the flag i
matchesCase(p, s) == MatchStarts(p, s) # {}

CaptureCase(p, s) == SubSeq(s, GroupStart(p, s), GroupEnd(p, s) - 1)

null == "null"
NaN == "NaN"

RECURSIVE DigitRun(_)
DigitRun(s) ==
  IF s # "" /\ CharAt(s, 1) \in Digits
  THEN CharAt(s, 1) \o DigitRun(SubSeq(s, 2, Len(s))) ELSE ""

\* Digits without the zeros that do not count: those in front of an integer
\* part (front) or those behind a fraction
RECURSIVE StripZeros(_, _)
StripZeros(ds, front) ==
  IF ds = "" THEN ""
  ELSE IF front /\ CharAt(ds, 1) = "0" THEN StripZeros(SubSeq(ds, 2, Len(ds)), front)
  ELSE IF ~front /\ CharAt(ds, Len(ds)) = "0" THEN StripZeros(SubSeq(ds, 1, Len(ds) - 1), front)
  ELSE ds

\* parseFloat: the longest decimal literal the string starts with, after
\* leading white space; NaN when there is none.  A number is written the way
\* String(number) writes it, so that 12.5 and 12.50 are the same number.
parseFloat(s) ==
  LET t == TrimStart(s)
      int == DigitRun(t)
      rest == SubSeq(t, Len(int) + 1, Len(t))
      frac == IF rest # "" /\ CharAt(rest, 1) = "." THEN DigitRun(SubSeq(rest, 2, Len(rest))) ELSE ""
      whole == IF StripZeros(int, TRUE) = "" THEN "0" ELSE StripZeros(int, TRUE)
  IN  IF int = "" /\ frac = "" THEN NaN
      ELSE IF StripZeros(frac, FALSE) = "" THEN whole
      ELSE whole \o "." \o StripZeros(frac, FALSE)

\* a.b in a regular expression: a, any character but a line break, b
DotWord(a, b) == Alt(Lit(a) \o <<One("ANY")>> \o Lit(b))

\* dietaryInfo after the checks k.. of table: a check pushes its tag when the
\* text matches its regular expression and not the one it negates
RECURSIVE Tags(_, _, _)
Tags(table, k, s) ==
  IF k > Len(table) THEN <<>>
  ELSE (IF test(table[k].yes, table[k].yesOther, s) /\ ~test(table[k].no, table[k].noOther, s)
        THEN <<table[k].tag>> ELSE <<>>)
         \o Tags(table, k + 1, s)

\* text.match(/(a|b|...)/gi)?.[0].toLowerCase(): the leftmost match in the
\* text, and at that position the first alternative of the list that matches
FirstMatch(alternatives, s) ==
  LET l == toLowerCase(s)
      at(i) == { k \in DOMAIN alternatives : StartsAt(l, i, alternatives[k]) }
      starts == { i \in 1..Len(l) : at(i) # {} }
  IN  IF starts = {} THEN null ELSE alternatives[Least(at(Least(starts)))]

---------------------------------------------------------------------------
(* unlimited-scraper.js, extractCompleteRealMenu: the callback of           *)
(* allElements.forEach inside page.evaluate                                 *)

UM_minLen == 4
UM_maxLen == 800
UM_maxNameLen == 120

\* unlimited-scraper.js:304  /biryani|curry|dal|rice|naan|roti|chapati|paratha|k.../i
UM_foodKeywords ==
  {
    "biryani", "curry", "dal", "rice", "naan", "roti", "chapati", "paratha", "kulcha",
    "pizza", "burger", "pasta", "noodles", "sandwich", "soup", "salad", "dessert",
    "cake", "ice cream", "juice", "lassi", "tea", "coffee", "chicken", "mutton",
    "paneer", "fish", "prawn", "crab", "lobster", "beef", "lamb", "pork", "egg",
    "vegetable", "potato", "cauliflower", "spinach", "okra", "peas", "beans", "corn",
    "carrot", "onion", "tomato", "garlic", "ginger", "chili", "pepper", "spice",
    "masala", "tandoor", "grilled", "fried", "roasted", "steamed", "boiled", "baked",
    "stuffed", "marinated", "glazed", "crispy", "creamy", "spicy", "mild", "sweet",
    "sour", "bitter", "salty", "tangy", "smoky", "fragrant", "aromatic", "fresh", "hot",
    "cold", "warm", "chilled", "frozen"
  }

\* unlimited-scraper.js:306  /₹|rs|rupees|dollar|\\$|aed|dirham|sar|riyal|price|.../i
\* other alternatives: \\$
UM_priceKeywords ==
  {
    "₹", "rs", "rupees", "dollar", "aed", "dirham", "sar", "riyal", "price", "cost",
    "charge", "rate", "bill", "amount", "total", "per plate", "per serving", "per piece",
    "per bowl", "per glass", "per cup", "starting from", "starting at", "from", "only",
    "just", "mere", "budget", "affordable", "premium", "expensive", "cheap", "value",
    "deal", "offer", "discount", "save", "free", "complimentary"
  }

\* unlimited-scraper.js:309  /login|signup|register|sign in|sign up|download|ins.../i
UM_excludeKeywords ==
  {
    "login", "signup", "register", "sign in", "sign up", "download", "install",
    "app store", "play store", "home", "about us", "contact us", "privacy policy",
    "terms", "conditions", "help", "support", "faq", "career", "job", "blog", "news",
    "press", "media", "investor", "partner", "advertise", "business", "merchant",
    "delivery partner", "restaurant partner", "cart", "checkout", "payment",
    "order history", "account", "profile", "settings", "logout", "search", "filter",
    "sort", "category", "collection", "cuisine", "location", "area", "city", "explore",
    "discover", "trending", "popular", "recommended", "featured", "top rated", "best",
    "new", "offer", "deal", "discount", "coupon", "promo", "code", "free delivery",
    "cashback", "wallet", "points", "reward", "refer", "invite", "share", "like",
    "follow", "subscribe", "notification", "alert", "banner", "advertisement", "ad",
    "sponsored", "popup", "modal", "overlay", "loading", "spinner", "error", "404",
    "500", "maintenance", "coming soon", "under construction", "footer", "header",
    "navigation", "navbar", "sidebar", "breadcrumb", "pagination", "page", "next",
    "previous", "back", "continue", "proceed", "submit", "cancel", "close", "ok", "yes",
    "no", "accept", "decline", "agree", "disagree", "select", "choose", "pick", "option",
    "dropdown", "checkbox", "radio", "button", "link", "tab", "menu", "submenu",
    "toggle", "collapse", "expand", "show", "hide", "view", "display", "render", "load",
    "refresh", "reload", "update", "edit", "delete", "remove", "add", "create", "save",
    "copy", "paste", "cut", "print", "export", "import", "upload", "attachment", "file",
    "image", "photo", "video", "audio", "document", "pdf", "excel", "word", "powerpoint",
    "zip", "rar", "archive"
  }

\* unlimited-scraper.js:419  /out of stock|not available|unavailable|sold out|te.../i
UM_unavailable ==
  {
    "out of stock", "not available", "unavailable", "sold out",
    "temporarily unavailable", "coming soon", "seasonal", "limited time", "weekend only",
    "dinner only", "lunch only"
  }

\* unlimited-scraper.js:422  /popular|recommended|bestseller|chef special|house .../i
UM_popular ==
  {
    "popular", "recommended", "bestseller", "chef special", "house special", "signature",
    "most ordered", "top rated", "customer favorite", "must try", "highly recommended",
    "award winning", "famous", "legendary", "authentic", "traditional", "classic",
    "premium", "deluxe", "royal", "special", "exclusive", "limited edition"
  }

\* \\$ in priceKeywords: a backslash at the end of the text
UM_priceKeywordsOther == {[items |-> <<One(BS)>>, a |-> FALSE, z |-> TRUE]}

\* The tail (?:\\.\\d{1,2})? of the price groups: backslash, any character,
\* backslash, one or two letters d
UM_fractionTail == <<One(BS), One("ANY"), One(BS), Rep("d", 1, 2)>>

\* pricePatterns, in the order of the array.  In a regex literal \\s is a
\* backslash followed by the letter s, and \\d a backslash followed by d.
UM_pricePatterns ==
  << Pattern(<<One("₹"), One(BS), Star("s")>>, <<One(BS), Plus("d")>>, UM_fractionTail, <<>>),
     Pattern(<<One("r"), One("s"), One(BS), Opt("ANY"), One(BS), Star("s")>>,
             <<One(BS), Plus("d")>>, UM_fractionTail, <<>>),
     \* \\$\\s*(...): a backslash, the end of the input, and then more: never
     Pattern(<<One(BS), One("END"), One(BS), Star("s")>>, <<One(BS), Plus("d")>>, UM_fractionTail, <<>>),
     Pattern(Lit("aed") \o <<One(BS), Star("s")>>, <<One(BS), Plus("d")>>, UM_fractionTail, <<>>),
     Pattern(Lit("sar") \o <<One(BS), Star("s")>>, <<One(BS), Plus("d")>>, UM_fractionTail, <<>>),
     Pattern(<<>>, <<One(BS), Plus("d")>>, UM_fractionTail, <<One(BS), Star("s"), One("₹")>>),
     Pattern(<<>>, <<One(BS), Plus("d")>>, UM_fractionTail, <<One(BS), Star("s")>> \o Lit("rs")),
     Pattern(<<>>, <<One(BS), Plus("d")>>, UM_fractionTail, <<One(BS), Star("s")>> \o Lit("only")) >>

\* for (const pattern of pricePatterns) { match = text.match(pattern); if (match) { price = parseFloat(match[1]); break } }
RECURSIVE FirstPrice(_, _, _)
FirstPrice(patterns, k, s) ==
  IF k > Len(patterns) THEN null
  ELSE IF matches(patterns[k], s) THEN parseFloat(Capture(patterns[k], s))
  ELSE FirstPrice(patterns, k + 1, s)

UM_price(s) == FirstPrice(UM_pricePatterns, 1, s)

\* The if / else-if chain of the category rows, tested on lowerText
UM_categoryTable ==
  <<
     \* unlimited-scraper.js:352  /starter|appetizer|soup|salad|tikka|kebab|samosa|pa.../i
     << {
      "starter", "appetizer", "soup", "salad", "tikka", "kebab", "samosa", "pakora",
      "chaat", "cutlet", "finger food", "mezze", "tapas", "dim sum", "spring roll",
      "dumpling"
       }, "starter" >>,
     \* unlimited-scraper.js:354  /dessert|sweet|ice cream|cake|kulfi|gulab jamun|ras.../i
     << {
      "dessert", "sweet", "ice cream", "cake", "kulfi", "gulab jamun", "rasmalai", "kheer",
      "halwa", "payasam", "rabri", "falooda", "brownie", "pastry", "mousse", "tart", "pie",
      "cheesecake", "pudding", "custard", "jelly", "sorbet", "gelato"
       }, "dessert" >>,
     \* unlimited-scraper.js:356  /rice|biryani|pulao|fried rice|jeera rice|coconut r.../i
     << {
      "rice", "biryani", "pulao", "fried rice", "jeera rice", "coconut rice", "lemon rice",
      "steamed rice", "brown rice", "basmati"
       }, "rice" >>,
     \* unlimited-scraper.js:358  /bread|naan|roti|paratha|kulcha|chapati|puri|bhatur.../i
     << {
      "bread", "naan", "roti", "paratha", "kulcha", "chapati", "puri", "bhatura", "pita",
      "tortilla", "baguette", "ciabatta", "focaccia"
       }, "bread" >>,
     \* unlimited-scraper.js:360  /dal|curry|gravy|sabji|subzi|korma|masala|kadai|pal.../i
     << {
      "dal", "curry", "gravy", "sabji", "subzi", "korma", "masala", "kadai", "palak",
      "matter", "aloo", "gobi", "bhindi", "baingan"
       }, "curry" >>,
     \* unlimited-scraper.js:362  /drink|beverage|juice|lassi|tea|coffee|shake|smooth.../i
     << {
      "drink", "beverage", "juice", "lassi", "tea", "coffee", "shake", "smoothie", "water",
      "soda", "cola", "lemonade", "mojito", "cocktail", "wine", "beer", "whiskey", "vodka",
      "gin", "rum", "champagne", "mocktail", "fresh lime", "coconut water"
       }, "beverage" >>,
     \* unlimited-scraper.js:364  /pizza/i
     << {
      "pizza"
       }, "pizza" >>,
     \* unlimited-scraper.js:366  /burger/i
     << {
      "burger"
       }, "burger" >>,
     \* unlimited-scraper.js:368  /pasta|noodles|spaghetti|penne|fusilli|lasagna|ravi.../i
     << {
      "pasta", "noodles", "spaghetti", "penne", "fusilli", "lasagna", "ravioli", "gnocchi",
      "linguine", "fettuccine", "ramen", "udon", "pho", "pad thai"
       }, "pasta" >>,
     \* unlimited-scraper.js:370  /sandwich|roll|wrap|sub|panini|club|blt|grilled cheese/i
     << {
      "sandwich", "roll", "wrap", "sub", "panini", "club", "blt", "grilled cheese"
       }, "snack" >>
  >>

RECURSIVE FirstRow(_, _, _, _)
FirstRow(table, k, s, default) ==
  IF k > Len(table) THEN default
  ELSE IF test(table[k][1], {}, s) THEN table[k][2]
  ELSE FirstRow(table, k + 1, s, default)

\* The category chain without its default
UM_categoryNoDefault(s) == FirstRow(UM_categoryTable, 1, toLowerCase(s), null)

UM_category(s) == FirstRow(UM_categoryTable, 1, toLowerCase(s), "main")

\* The if / else-if chain of the spice levels, tested on lowerText
UM_spiceTable ==
  <<
     \* unlimited-scraper.js:403  /mild|not spicy|less spicy|no spice|bland/i
     << {
      "mild", "not spicy", "less spicy", "no spice", "bland"
       }, "mild" >>,
     \* unlimited-scraper.js:405  /medium spicy|moderately spicy|medium heat/i
     << {
      "medium spicy", "moderately spicy", "medium heat"
       }, "medium" >>,
     \* unlimited-scraper.js:407  /spicy|hot|very spicy|extra spicy|fiery|burning|chili hot/i
     << {
      "spicy", "hot", "very spicy", "extra spicy", "fiery", "burning", "chili hot"
       }, "spicy" >>,
     \* unlimited-scraper.js:409  /extremely spicy|super hot|devil hot|ghost pepper/i
     << {
      "extremely spicy", "super hot", "devil hot", "ghost pepper"
       }, "extra-spicy" >>
  >>

\* The chain with the spicy phrases tested before the mild ones
UM_spiceLevelSpicyFirst(s) ==
  FirstRow(<<UM_spiceTable[3], UM_spiceTable[1], UM_spiceTable[2], UM_spiceTable[4]>>,
           1, toLowerCase(s), null)

UM_spiceLevel(s) == FirstRow(UM_spiceTable, 1, toLowerCase(s), null)

\* Every dish can be had
UM_isAvailableAlways(s) == TRUE

UM_isAvailable(s) == ~test(UM_unavailable, {}, toLowerCase(s))

UM_isPopular(s) == test(UM_popular, {}, toLowerCase(s))

\* [^a-zA-Z0-9\\s'&.,-]: in the class \\s is a backslash and the letter s
UM_nameChars ==
  Range(UpperCase) \cup Range(LowerCase) \cup Digits \cup {BS, "'", "&", ".", ",", "-"}

\* replace(/\\s+/g, " "): a backslash followed by one or more letters s
RECURSIVE ReplaceBackslashS(_)
ReplaceBackslashS(s) ==
  LET i == IndexOf(s, BS \o "s")
  IN  IF i = 0 THEN s
      ELSE LET ends == MatchEnds(<<One(BS), Plus("s")>>, 1, s, i)
               e == CHOOSE x \in ends : \A y \in ends : y <= x
           IN  SubSeq(s, 1, i - 1) \o " " \o ReplaceBackslashS(SubSeq(s, e, Len(s)))

\* text.split('\\n'): the separator is a backslash followed by the letter n
BackslashN == BS \o "n"

UM_lines(s) == filterTrimmedLonger(split(s, BackslashN), 0)

UM_itemName(s) ==
  LET lines == UM_lines(s)
      first == IF lines # <<>> THEN trim(lines[1]) ELSE trim(substring0(s, UM_maxNameLen))
  IN  trim(ReplaceBackslashS(ReplaceOutside(first, UM_nameChars)))

\* The candidate filter without its lower bound
UM_filterNoMinLen(s) == ~(Len(s) > UM_maxLen)

UM_filter(s) == ~(Len(s) < UM_minLen \/ Len(s) > UM_maxLen)

UM_gate(s) ==
  (test(UM_foodKeywords, {}, s) \/ test(UM_priceKeywords, UM_priceKeywordsOther, s))
    /\ ~test(UM_excludeKeywords, {}, s)

\* The checks that push a tag to dietaryInfo, in their order
UM_dietaryTable ==
  <<
     \* unlimited-scraper.js:376  /\\bveg\\b|vegetarian|veggie/i && !/non.veg|chicken|mutton|fish|egg|meat|beef|lamb|pork/i
     [ tag |-> "vegetarian",
       yes |-> { "vegetarian", "veggie" }, yesOther |-> {Alt(Lit(BS \o "bveg" \o BS \o "b"))},
       no |-> { "chicken", "mutton", "fish", "egg", "meat", "beef", "lamb", "pork" }, noOther |-> {DotWord("non", "veg")} ],
     \* unlimited-scraper.js:379  /non.veg|non-veg|chicken|mutton|fish|meat|egg|beef|.../i
     [ tag |-> "non-vegetarian",
       yes |-> { "non-veg", "chicken", "mutton", "fish", "meat", "egg", "beef", "lamb",
                  "pork", "seafood", "prawn", "crab", "lobster" }, yesOther |-> {DotWord("non", "veg")},
       no |-> {}, noOther |-> {} ],
     \* unlimited-scraper.js:382  /jain|no onion|no garlic/i
     [ tag |-> "jain",
       yes |-> { "jain", "no onion", "no garlic" }, yesOther |-> {},
       no |-> {}, noOther |-> {} ],
     \* unlimited-scraper.js:385  /vegan/i
     [ tag |-> "vegan",
       yes |-> { "vegan" }, yesOther |-> {},
       no |-> {}, noOther |-> {} ],
     \* unlimited-scraper.js:388  /gluten.free|no gluten/i
     [ tag |-> "gluten-free",
       yes |-> { "no gluten" }, yesOther |-> {DotWord("gluten", "free")},
       no |-> {}, noOther |-> {} ],
     \* unlimited-scraper.js:391  /dairy.free|no dairy|lactose.free/i
     [ tag |-> "dairy-free",
       yes |-> { "no dairy" }, yesOther |-> {DotWord("dairy", "free"), DotWord("lactose", "free")},
       no |-> {}, noOther |-> {} ],
     \* unlimited-scraper.js:394  /keto|ketogenic|low carb/i
     [ tag |-> "keto",
       yes |-> { "keto", "ketogenic", "low carb" }, yesOther |-> {},
       no |-> {}, noOther |-> {} ],
     \* unlimited-scraper.js:397  /organic|natural|farm fresh/i
     [ tag |-> "organic",
       yes |-> { "organic", "natural", "farm fresh" }, yesOther |-> {},
       no |-> {}, noOther |-> {} ]
  >>

\* unlimited-scraper.js:414  cuisinePattern, the alternatives in their order
UM_cuisinePattern ==
  << "north indian", "south indian", "chinese", "italian", "mexican", "thai",
     "american", "continental", "arabic", "lebanese", "turkish", "iranian", "punjabi",
     "gujarati", "maharashtrian", "bengali", "rajasthani", "kerala", "tamil",
     "kashmiri", "hyderabadi", "lucknowi", "awadhi", "mughlai", "street food",
     "fast food", "mediterranean", "japanese", "korean", "vietnamese", "malaysian",
     "singaporean", "indonesian", "filipino", "greek", "french", "spanish", "german",
     "russian", "african", "moroccan", "egyptian", "ethiopian", "brazilian", "peruvian",
     "argentinian", "canadian", "australian" >>


\* Tags of which 'vegetarian' leaves no room for 'non-vegetarian'
UM_dietaryInfoExclusive(s) ==
  LET tags == Tags(UM_dietaryTable, 1, toLowerCase(s))
  IN  IF "vegetarian" \in Range(tags) THEN SelectSeq(tags, LAMBDA t : t # "non-vegetarian")
      ELSE tags

UM_dietaryInfo(s) == Tags(UM_dietaryTable, 1, toLowerCase(s))

UM_cuisine(s) == FirstMatch(UM_cuisinePattern, s)

NoRecord == [none |-> TRUE]

\* lines.slice(1).join(' ').trim(), or what follows the first characters of
\* the text that the name has as many of; then description.substring(0, 500)
UM_description(s) ==
  LET lines == UM_lines(s)
      itemName == UM_itemName(s)
      description ==
        IF Len(lines) > 1 THEN trim(join(Tail(lines)))
        ELSE IF Len(s) > Len(itemName) + 15 THEN trim(substringFrom(s, Len(itemName)))
        ELSE ""
  IN  substring0(description, 500)

\* The record of items.push({...})
UM_assemble(s) ==
  [ name |-> UM_itemName(s),
    description |-> UM_description(s),
    price |-> UM_price(s),
    category |-> UM_category(s),
    cuisine_type |-> UM_cuisine(s),
    dietary_info |-> UM_dietaryInfo(s),
    spice_level |-> UM_spiceLevel(s),
    is_available |-> UM_isAvailable(s),
    is_popular |-> UM_isPopular(s) ]

\* element => { ... } of extractCompleteRealMenu
extractCompleteRealMenu(innerText) ==
  LET s == trim(innerText)
  IN  IF ~UM_filter(s) THEN NoRecord
      ELSE IF ~UM_gate(s) THEN NoRecord
      ELSE IF ~(Len(UM_itemName(s)) > 2 /\ Len(UM_itemName(s)) < 300) THEN NoRecord
      ELSE UM_assemble(s)

---------------------------------------------------------------------------
(* unlimited-scraper.js, extractAllRestaurantsFromArea: the callback of      *)
(* allElements.forEach inside page.evaluate                                 *)

\* unlimited-scraper.js:151  /restaurant|cafe|bar|kitchen|bistro|pizza|burger|ho.../i
UR_hasRestaurantKeywords ==
  {
    "restaurant", "cafe", "bar", "kitchen", "bistro", "pizza", "burger", "hotel",
    "dhaba", "dining", "eatery", "food court", "canteen", "mess", "tiffin", "caterer"
  }

\* unlimited-scraper.js:152  /indian|chinese|italian|mexican|thai|american|conti.../i
UR_hasCuisineKeywords ==
  {
    "indian", "chinese", "italian", "mexican", "thai", "american", "continental",
    "arabic", "lebanese", "turkish", "iranian", "biryani", "pizza", "burger", "shawarma",
    "kebab", "fast food", "north indian", "south indian", "punjabi", "gujarati",
    "maharashtrian", "bengali", "rajasthani", "kerala", "tamil", "kashmiri",
    "hyderabadi", "lucknowi", "awadhi", "mughlai", "street food", "mediterranean",
    "japanese", "korean", "vietnamese", "malaysian", "singaporean", "indonesian",
    "filipino"
  }

\* unlimited-scraper.js:153  /\\d+\\.\\d+|★|⭐|rating|review|star/i
\* other alternatives: \\d+\\.\\d+
\* (the alternatives that are star symbols are left out: no text here holds one)
UR_hasRatingInfo ==
  {
    "rating", "review", "star"
  }

\* unlimited-scraper.js:158  /login|signup|download|app|home|about|contact|priva.../i
UR_invalid ==
  {
    "login", "signup", "download", "app", "home", "about", "contact", "privacy", "terms",
    "help", "support", "cart", "search", "filter", "location", "explore", "trending",
    "show more", "view all", "advertisement", "ad", "sponsored", "promotion", "banner",
    "popup", "modal", "overlay", "loading", "error", "maintenance", "footer", "header",
    "navbar", "sidebar", "breadcrumb", "pagination", "sort", "category", "collection",
    "featured", "popular", "recommended", "new", "top rated", "best"
  }

\* unlimited-scraper.js:169  /^\\d+$|^[a-z]$|order|delivery|menu|restaurant|food.../i
\* other alternatives: ^\\d+$ ^[a-z]$ ^explore ^discover ^find ^search ^filter ^sort ^view ^show ^see ^more ^all ^best ^top ^new ^popular ^recommended ^featured ^trending ^offers ^deals ^discount ^free ^save ^get ^book ^reserve ^call ^directions ^photos ^reviews
UR_nonRestaurantName ==
  {
    "order", "delivery", "menu", "restaurant", "food", "dining", "cuisine"
  }

\* \\d+\\.\\d+: backslash, letters d, backslash, any character, backslash,
\* letters d
BackslashDecimal == <<One(BS), Plus("d"), One(BS), One("ANY"), One(BS), Plus("d")>>

UR_hasRatingInfoOther == {Alt(BackslashDecimal)}

\* The anchored alternatives of the name test: ^\\d+$, ^[a-z]$ and ^word
UR_nonRestaurantNameStart ==
  { "explore", "discover", "find", "search", "filter", "sort", "view", "show", "see",
    "more", "all", "best", "top", "new", "popular", "recommended", "featured",
    "trending", "offers", "deals", "discount", "free", "save", "get", "book", "reserve",
    "call", "directions", "photos", "reviews" }

UR_nonRestaurantNameOther ==
  { [items |-> <<One(BS), Plus("d")>>, a |-> TRUE, z |-> TRUE],
    [items |-> <<One("ALPHA")>>, a |-> TRUE, z |-> TRUE] }
    \cup { [items |-> Lit(w), a |-> TRUE, z |-> FALSE] : w \in UR_nonRestaurantNameStart }

UR_minLen == 10
UR_maxLen == 1000
UR_maxNameLen == 150

\* [^a-zA-Z0-9\\s'&.-]
UR_nameChars ==
  Range(UpperCase) \cup Range(LowerCase) \cup Digits \cup {BS, "'", "&", ".", "-"}

UR_lines(s) == filterTrimmedLonger(split(s, BackslashN), 2)

UR_name(s) ==
  LET lines == UR_lines(s)
      first == IF lines # <<>> THEN trim(lines[1]) ELSE trim(substring0(s, UR_maxNameLen))
  IN  trim(ReplaceBackslashS(ReplaceOutside(first, UR_nameChars)))

UR_filter(s) == ~(Len(s) < UR_minLen \/ Len(s) > UR_maxLen)

UR_isValidRestaurant(s) == ~test(UR_invalid, {}, s)

UR_gate(s) ==
  ( \/ test(UR_hasRestaurantKeywords, {}, s)
    \/ test(UR_hasCuisineKeywords, {}, s)
    \/ test(UR_hasRatingInfo, UR_hasRatingInfoOther, s) )
    /\ UR_isValidRestaurant(s)

UR_nameOk(name) ==
  /\ Len(name) > 3
  /\ Len(name) < 200
  /\ ~test(UR_nonRestaurantName, UR_nonRestaurantNameOther, name)

UR_ratingPattern == Pattern(<<>>, BackslashDecimal, <<>>, <<>>)

\* The record of results.push({...})
UR_assemble(s) ==
  [ name |-> UR_name(s),
    rating |-> IF matches(UR_ratingPattern, s)
               THEN parseFloat(Capture(UR_ratingPattern, s)) ELSE null ]

\* element => { ... } of extractAllRestaurantsFromArea
extractAllRestaurantsFromArea(innerText) ==
  LET s == trim(innerText)
  IN  IF ~UR_filter(s) THEN NoRecord
      ELSE IF ~UR_gate(s) THEN NoRecord
      ELSE IF ~UR_nameOk(UR_name(s)) THEN NoRecord
      ELSE UR_assemble(s)

---------------------------------------------------------------------------
(* database-setup.sql, scrapeSwiggy: the callback of elements.forEach       *)
(* (the regular expressions of this file have single backslashes)           *)

\* database-setup.sql:420  /restaurant|food|delivery|kitchen|cafe|pizza|burger/i
SW_hasRestaurantKeywords ==
  {
    "restaurant", "food", "delivery", "kitchen", "cafe", "pizza", "burger"
  }

\* database-setup.sql:421  /\d+\s*min|\d+\s*km|delivery|₹\s*\d+/i
\* other alternatives: \d+\s*min \d+\s*km ₹\s*\d+
SW_hasDeliveryInfo ==
  {
    "delivery"
  }

\* database-setup.sql:427  /order|cart|login|signup|app/i
SW_excludedName ==
  {
    "order", "cart", "login", "signup", "app"
  }

SW_maxIndex == 400
SW_minLen == 15
SW_maxLen == 350

\* \d+\s*min, \d+\s*km and ₹\s*\d+ of hasDeliveryInfo
SW_hasDeliveryInfoOther ==
  { Alt(<<Plus("DIGIT"), Star("WS")>> \o Lit("min")),
    Alt(<<Plus("DIGIT"), Star("WS")>> \o Lit("km")),
    Alt(<<One("₹"), Star("WS"), Plus("DIGIT")>>) }

\* (\d+\.\d+)
Decimal == <<Plus("DIGIT"), One("."), Plus("DIGIT")>>

DecimalPattern == Pattern(<<>>, Decimal, <<>>, <<>>)

\* text.split('\n'): the separator is a line break
SW_lines(s) == filterTrimmedLonger(split(s, "\n"), 2)

SW_filter(s) == ~(Len(s) < SW_minLen \/ Len(s) > SW_maxLen)

SW_gate(s) ==
  test(SW_hasRestaurantKeywords, {}, s) \/ test(SW_hasDeliveryInfo, SW_hasDeliveryInfoOther, s)

\* name && name.length > 3 && name.length < 80 && !(/order|.../i.test(name))
SW_nameOk(lines) ==
  /\ lines # <<>>
  /\ Len(trim(lines[1])) > 3
  /\ Len(trim(lines[1])) < 80
  /\ ~test(SW_excludedName, {}, trim(lines[1]))

SW_assemble(s) ==
  [ name |-> trim(SW_lines(s)[1]),
    rating |-> IF matchesCase(DecimalPattern, s) THEN CaptureCase(DecimalPattern, s) ELSE null ]

\* (element, index) => { ... } of scrapeSwiggy
scrapeSwiggy(innerText, i) ==
  LET s == trim(innerText)
  IN  IF i > SW_maxIndex THEN NoRecord
      ELSE IF ~SW_filter(s) THEN NoRecord
      ELSE IF ~SW_gate(s) THEN NoRecord
      ELSE IF ~SW_nameOk(SW_lines(s)) THEN NoRecord
      ELSE SW_assemble(s)

---------------------------------------------------------------------------
(* unnamed/part_003, scrapeMenus: the callback of allElements.forEach       *)
(*                                                                          *)

\* unnamed/part_003:333  /curry|rice|bread|naan|chicken|mutton|paneer|dal|sa.../i
CM_hasDishKeywords ==
  {
    "curry", "rice", "bread", "naan", "chicken", "mutton", "paneer", "dal", "samosa",
    "biryani", "tandoor", "masala", "tikka", "kebab", "dosa", "idli", "vada", "pasta",
    "noodles", "fried", "soup", "salad", "dessert", "ice cream", "cake", "sweet"
  }

\* unnamed/part_003:334  /₹|rs|\\$|\\d+\\.\\d+|price|cost/i
\* other alternatives: \\$ \\d+\\.\\d+
CM_hasPrice ==
  {
    "₹", "rs", "price", "cost"
  }

\* unnamed/part_003:337  /login|signup|order|cart|home|menu|about|contact|de.../i
CM_navigation ==
  {
    "login", "signup", "order", "cart", "home", "menu", "about", "contact", "delivery",
    "offers", "download", "app", "search", "filter", "sort", "location", "city"
  }

CM_maxIndex == 500
CM_minLen == 5
CM_maxLen == 150

\* \\$ and \\d+\\.\\d+ of hasPrice
CM_hasPriceOther == {[items |-> <<One(BS)>>, a |-> FALSE, z |-> TRUE], Alt(BackslashDecimal)}

CM_filter(s) == Len(s) > CM_minLen /\ Len(s) < CM_maxLen

\* const isShortEnough = text.split('\\n').length <= 3
CM_isShortEnough(s) == Len(split(s, BackslashN)) <= 3

CM_isNotNavigation(s) == ~test(CM_navigation, {}, s)

\* if (hasDishKeywords && isShortEnough && isNotNavigation): hasPrice is
\* computed and not used
CM_gate(s) ==
  test(CM_hasDishKeywords, {}, s) /\ CM_isShortEnough(s) /\ CM_isNotNavigation(s)

\* lines[0] || text.substring(0, 50)
CM_name(s) ==
  LET lines == filterTrimmedLonger(split(s, BackslashN), 0)
  IN  IF lines # <<>> THEN lines[1] ELSE substring0(s, 50)

\* text.match(/₹\\s*(\\d+)/i) || text.match(/(\\d+\\.\\d+)/); price is match[1]
CM_rupeePattern == Pattern(<<One("₹"), One(BS), Star("s")>>, <<One(BS), Plus("d")>>, <<>>, <<>>)

CM_decimalPattern == Pattern(<<>>, BackslashDecimal, <<>>, <<>>)

CM_price(s) ==
  IF matches(CM_rupeePattern, s) THEN Capture(CM_rupeePattern, s)
  ELSE IF matchesCase(CM_decimalPattern, s) THEN CaptureCase(CM_decimalPattern, s)
  ELSE ""

\* The if / else-if chain of the category rows
CM_categoryTable ==
  <<
     \* unnamed/part_003:349  /dessert|sweet|ice cream|cake|kulfi/i
     << {
      "dessert", "sweet", "ice cream", "cake", "kulfi"
       }, "dessert" >>,
     \* unnamed/part_003:350  /starter|appetizer|soup|salad|tikka|kebab/i
     << {
      "starter", "appetizer", "soup", "salad", "tikka", "kebab"
       }, "starter" >>,
     \* unnamed/part_003:351  /rice|biryani|pulao/i
     << {
      "rice", "biryani", "pulao"
       }, "rice" >>,
     \* unnamed/part_003:352  /bread|naan|roti|paratha/i
     << {
      "bread", "naan", "roti", "paratha"
       }, "bread" >>,
     \* unnamed/part_003:353  /dal|curry/i
     << {
      "dal", "curry"
       }, "curry" >>
  >>

CM_category(s) == FirstRow(CM_categoryTable, 1, s, "main")

CM_assemble(s) ==
  [ name |-> substring0(CM_name(s), 100),
    price |-> CM_price(s),
    category |-> CM_category(s) ]

\* (element, index) => { ... } of scrapeMenus
scrapeMenus(innerText, i) ==
  LET s == trim(innerText)
  IN  IF i > CM_maxIndex THEN NoRecord
      ELSE IF ~CM_filter(s) THEN NoRecord
      ELSE IF ~CM_gate(s) THEN NoRecord
      ELSE IF ~(Len(CM_name(s)) > 3) THEN NoRecord
      ELSE CM_assemble(s)

---------------------------------------------------------------------------
(* working-scraper.js, scrapeRestaurants: the callback of allElements.forEach *)
(*                                                                          *)

\* working-scraper.js:81  /restaurant|cuisine|food|cafe|bar|grill|kitchen|del.../i
WR_hasRestaurantKeywords ==
  {
    "restaurant", "cuisine", "food", "cafe", "bar", "grill", "kitchen", "deli", "bistro",
    "pizza", "burger"
  }

\* working-scraper.js:82  /\d+\.\d+|\d+\/\d+|★|⭐/i
\* other alternatives: \d+\.\d+ \d+\/\d+
\* (the alternatives that are star symbols are left out: no text here holds one)
WR_hasRating == {}

\* working-scraper.js:83  /indian|chinese|italian|mexican|thai|american|conti.../i
WR_hasCuisine ==
  {
    "indian", "chinese", "italian", "mexican", "thai", "american", "continental",
    "fast food", "south indian", "north indian", "punjabi", "gujarati", "maharashtrian"
  }

\* working-scraper.js:91  /login|sign up|order now|delivery|search|home|menu|.../i
\* other alternatives: ^\\d+$ ^[a-z]$
WR_notAName ==
  {
    "login", "sign up", "order now", "delivery", "search", "home", "menu", "cart",
    "about", "contact"
  }

WR_maxIndex == 1000
WR_minLen == 10
WR_maxLen == 200

\* \d+\.\d+ and \d+\/\d+ of hasRating
WR_hasRatingOther == {Alt(Decimal), Alt(<<Plus("DIGIT"), One("/"), Plus("DIGIT")>>)}

\* ^\\d+$ and ^[a-z]$ of the name test
WR_notANameOther ==
  { [items |-> <<One(BS), Plus("d")>>, a |-> TRUE, z |-> TRUE],
    [items |-> <<One("ALPHA")>>, a |-> TRUE, z |-> TRUE] }

WR_filter(s) == Len(s) > WR_minLen /\ Len(s) < WR_maxLen

\* if ((hasRestaurantKeywords || hasCuisine) && text.split('\\n').length <= 5):
\* hasRating is computed and not used
WR_gate(s) ==
  (test(WR_hasRestaurantKeywords, {}, s) \/ test(WR_hasCuisine, {}, s))
    /\ Len(split(s, BackslashN)) <= 5

\* lines[0] || text.substring(0, 50)
WR_name(s) ==
  LET lines == filterTrimmedLonger(split(s, BackslashN), 0)
  IN  IF lines # <<>> THEN lines[1] ELSE substring0(s, 50)

WR_nameOk(name) == ~test(WR_notAName, WR_notANameOther, name)

WR_assemble(s) ==
  [ name |-> substring0(WR_name(s), 100),
    rating |-> IF matchesCase(DecimalPattern, s) THEN CaptureCase(DecimalPattern, s) ELSE "" ]

\* (element, index) => { ... } of scrapeRestaurants
scrapeRestaurants(innerText, i) ==
  LET s == trim(innerText)
  IN  IF i > WR_maxIndex THEN NoRecord
      ELSE IF ~WR_filter(s) THEN NoRecord
      ELSE IF ~WR_gate(s) THEN NoRecord
      ELSE IF ~WR_nameOk(WR_name(s)) THEN NoRecord
      ELSE WR_assemble(s)

---------------------------------------------------------------------------
(* working-scraper.js, extractCompleteMenu: the callback of                 *)
(* allMenuElements.forEach                                                  *)

\* working-scraper.js:540  /curry|rice|bread|naan|chicken|mutton|paneer|dal|sa.../i
WM_hasFoodKeywords ==
  {
    "curry", "rice", "bread", "naan", "chicken", "mutton", "paneer", "dal", "samosa",
    "biryani", "tandoor", "masala", "tikka", "kebab", "dosa", "idli", "vada", "pasta",
    "noodles", "fried", "soup", "salad", "dessert", "ice cream", "cake", "sweet",
    "pizza", "burger", "sandwich", "roll", "wrap", "juice", "lassi", "tea", "coffee"
  }

\* working-scraper.js:541  /₹|rs|\\$|aed|sar|price|cost|\\d+\\.\\d+/i
\* other alternatives: \\$ \\d+\\.\\d+
WM_hasPrice ==
  {
    "₹", "rs", "aed", "sar", "price", "cost"
  }

\* working-scraper.js:542  /login|signup|cart|home|about|contact|delivery|offe.../i
WM_navigation ==
  {
    "login", "signup", "cart", "home", "about", "contact", "delivery", "offers",
    "download", "app", "search", "filter", "sort", "location", "city", "order now",
    "view all"
  }

\* working-scraper.js:591  /out of stock|not available|unavailable|sold out/i
WM_unavailable ==
  {
    "out of stock", "not available", "unavailable", "sold out"
  }

\* working-scraper.js:601  /popular|recommended|bestseller|chef special/i
WM_popular ==
  {
    "popular", "recommended", "bestseller", "chef special"
  }

WM_maxIndex == 200
WM_minLen == 5
WM_maxLen == 300
WM_maxNameLen == 80

\* \\$ and \\d+\\.\\d+ of hasPrice
WM_hasPriceOther == {[items |-> <<One(BS)>>, a |-> FALSE, z |-> TRUE], Alt(BackslashDecimal)}

WM_filter(s) == ~(Len(s) < WM_minLen \/ Len(s) > WM_maxLen)

WM_gate(s) ==
  (test(WM_hasFoodKeywords, {}, s) \/ test(WM_hasPrice, WM_hasPriceOther, s))
    /\ ~test(WM_navigation, {}, s)

WM_name(s) ==
  LET lines == filterTrimmedLonger(split(s, BackslashN), 0)
  IN  IF lines # <<>> THEN trim(lines[1]) ELSE trim(substring0(s, WM_maxNameLen))

\* The tail (?:\\.\\d{2})? of the price groups
WM_fractionTail == <<One(BS), One("ANY"), One(BS), Rep("d", 2, 2)>>

\* The alternatives of pricePattern, one regular expression: the match is the
\* leftmost one, and at one position the first alternative that matches
WM_pricePattern ==
  << Pattern(<<One("₹"), One(BS), Star("s")>>, <<One(BS), Plus("d")>>, WM_fractionTail, <<>>),
     Pattern(<<One(BS), One("END"), One(BS), Star("s")>>, <<One(BS), Plus("d")>>, WM_fractionTail, <<>>),
     Pattern(Lit("aed") \o <<One(BS), Star("s")>>, <<One(BS), Plus("d")>>, WM_fractionTail, <<>>),
     Pattern(Lit("rs") \o <<One(BS), Star("s")>>, <<One(BS), Plus("d")>>, <<>>, <<>>) >>

\* price = parseFloat(priceMatch[1] || priceMatch[2] || priceMatch[3] || priceMatch[4])
WM_price(s) ==
  LET l == toLowerCase(s)
      starts == UNION { MatchStarts(WM_pricePattern[k], l) : k \in 1..Len(WM_pricePattern) }
  IN  IF starts = {} THEN null
      ELSE LET k == Least({ j \in 1..Len(WM_pricePattern) :
                              Least(starts) \in MatchStarts(WM_pricePattern[j], l) })
           IN  parseFloat(Capture(WM_pricePattern[k], s))

\* The if / else-if chain of the category rows
WM_categoryTable ==
  <<
     \* working-scraper.js:567  /dessert|sweet|ice cream|cake|kulfi|gulab jamun|rasmalai/i
     << {
      "dessert", "sweet", "ice cream", "cake", "kulfi", "gulab jamun", "rasmalai"
       }, "dessert" >>,
     \* working-scraper.js:568  /starter|appetizer|soup|salad|tikka|kebab|samosa|pa.../i
     << {
      "starter", "appetizer", "soup", "salad", "tikka", "kebab", "samosa", "pakora", "chaat"
       }, "starter" >>,
     \* working-scraper.js:569  /rice|biryani|pulao|fried rice|jeera rice/i
     << {
      "rice", "biryani", "pulao", "fried rice", "jeera rice"
       }, "rice" >>,
     \* working-scraper.js:570  /bread|naan|roti|paratha|kulcha|chapati/i
     << {
      "bread", "naan", "roti", "paratha", "kulcha", "chapati"
       }, "bread" >>,
     \* working-scraper.js:571  /dal|curry|gravy|sabji|subzi/i
     << {
      "dal", "curry", "gravy", "sabji", "subzi"
       }, "curry" >>,
     \* working-scraper.js:572  /drink|beverage|juice|lassi|tea|coffee|shake|smoothie/i
     << {
      "drink", "beverage", "juice", "lassi", "tea", "coffee", "shake", "smoothie"
       }, "beverage" >>,
     \* working-scraper.js:573  /pizza/i
     << {
      "pizza"
       }, "pizza" >>,
     \* working-scraper.js:574  /burger/i
     << {
      "burger"
       }, "burger" >>,
     \* working-scraper.js:575  /pasta|noodles/i
     << {
      "pasta", "noodles"
       }, "pasta" >>,
     \* working-scraper.js:576  /sandwich|roll|wrap/i
     << {
      "sandwich", "roll", "wrap"
       }, "snack" >>
  >>

WM_category(s) == FirstRow(WM_categoryTable, 1, s, "main")

\* /mild/i.test(text) ? 'mild' : /spicy|hot/i.test(text) ? 'spicy' : null
WM_spiceTable ==
  <<
     \* working-scraper.js:602  /mild/i
     << {
      "mild"
       }, "mild" >>,
     \* working-scraper.js:602  /spicy|hot/i
     << {
      "spicy", "hot"
       }, "spicy" >>
  >>

WM_spiceLevel(s) == FirstRow(WM_spiceTable, 1, s, null)

\* The checks that push a tag to dietaryInfo, in their order
WM_dietaryTable ==
  <<
     \* working-scraper.js:580  /veg|vegetarian/i && !/non.veg|chicken|mutton|fish|egg/i
     [ tag |-> "vegetarian",
       yes |-> { "veg", "vegetarian" }, yesOther |-> {},
       no |-> { "chicken", "mutton", "fish", "egg" }, noOther |-> {DotWord("non", "veg")} ],
     \* working-scraper.js:581  /non.veg|chicken|mutton|fish|meat|egg/i
     [ tag |-> "non-vegetarian",
       yes |-> { "chicken", "mutton", "fish", "meat", "egg" }, yesOther |-> {DotWord("non", "veg")},
       no |-> {}, noOther |-> {} ],
     \* working-scraper.js:582  /jain/i
     [ tag |-> "jain",
       yes |-> { "jain" }, yesOther |-> {},
       no |-> {}, noOther |-> {} ],
     \* working-scraper.js:583  /spicy|hot/i
     [ tag |-> "spicy",
       yes |-> { "spicy", "hot" }, yesOther |-> {},
       no |-> {}, noOther |-> {} ],
     \* working-scraper.js:584  /mild/i
     [ tag |-> "mild",
       yes |-> { "mild" }, yesOther |-> {},
       no |-> {}, noOther |-> {} ]
  >>


WM_dietaryInfo(s) == Tags(WM_dietaryTable, 1, s)

WM_assemble(s) ==
  [ name |-> WM_name(s),
    price |-> WM_price(s),
    category |-> WM_category(s),
    dietary_info |-> WM_dietaryInfo(s),
    spice_level |-> WM_spiceLevel(s),
    is_available |-> ~test(WM_unavailable, {}, s),
    is_popular |-> test(WM_popular, {}, s) ]

\* (element, index) => { ... } of extractCompleteMenu
extractCompleteMenu(innerText, i) ==
  LET s == trim(innerText)
  IN  IF i > WM_maxIndex THEN NoRecord
      ELSE IF ~WM_filter(s) THEN NoRecord
      ELSE IF ~WM_gate(s) THEN NoRecord
      ELSE IF ~(Len(WM_name(s)) > 2 /\ Len(WM_name(s)) < 150) THEN NoRecord
      ELSE WM_assemble(s)

---------------------------------------------------------------------------
(* unnamed/part_000, extractAllMenuItems: the callback of allElements.forEach *)

\* unnamed/part_000:129  /curry|rice|bread|naan|chicken|mutton|paneer|dal|sa.../i
AM_foodKeywords ==
  { "curry", "rice", "bread", "naan", "chicken", "mutton", "paneer", "dal", "samosa",
    "biryani", "tandoor", "masala", "tikka", "kebab", "dosa", "idli", "vada", "pasta",
    "noodles", "fried", "soup", "salad", "dessert", "ice cream", "cake", "sweet",
    "pizza", "burger", "sandwich", "roll", "wrap", "juice", "lassi", "tea", "coffee",
    "chapati", "roti", "paratha", "kulcha", "raita", "pickle", "papad", "gulab jamun",
    "rasmalai", "kheer", "halwa", "payasam", "rabri", "kulfi", "falooda", "brownie",
    "pastry", "mousse", "tart", "pie", "croissant", "bagel", "waffle", "pancake",
    "omelette", "scrambled", "toast", "cereal", "yogurt", "smoothie", "milkshake",
    "lemonade", "mojito", "cocktail", "wine", "beer", "whiskey", "vodka", "gin", "rum" }

\* unnamed/part_000:131  /₹|rs|\\$|aed|sar|kwd|bhd|qar|price|cost|\\d+\\.\\d.../i
\* other alternatives: \\$ \\d+\\.\\d+ \\d+\\s*only
AM_priceKeywords ==
  { "₹", "rs", "aed", "sar", "kwd", "bhd", "qar", "price", "cost", "starting", "from" }

\* unnamed/part_000:134  /login|signup|cart|checkout|home|about|contact|deli.../i
AM_navigationKeywords ==
  { "login", "signup", "cart", "checkout", "home", "about", "contact", "delivery",
    "offers", "discount", "download", "app", "search", "filter", "sort", "location",
    "city", "order now", "view all", "show more", "load more", "continue", "next",
    "previous", "back", "menu", "categories", "restaurant info", "reviews", "photos",
    "directions", "call", "book table", "reserve", "share", "favorite", "wishlist",
    "follow", "like", "rating", "review", "write review", "upload photo", "report",
    "help", "support", "terms", "privacy", "policy", "footer", "header", "navbar",
    "sidebar", "advertisement", "ad", "sponsored", "promotion", "banner", "popup",
    "modal", "overlay", "loading", "error", "404", "500", "not found", "server error",
    "maintenance", "coming soon", "under construction" }

\* unnamed/part_000:229  /out of stock|not available|unavailable|sold out|te.../i
AM_unavailable ==
  { "out of stock", "not available", "unavailable", "sold out",
    "temporarily unavailable" }

\* unnamed/part_000:232  /popular|recommended|bestseller|chef special|house .../i
AM_popular ==
  { "popular", "recommended", "bestseller", "chef special", "house special", "signature",
    "most ordered", "top rated" }

AM_minLen == 4
AM_maxLen == 500
AM_maxNameLen == 100

\* \\$, \\d+\\.\\d+ and \\d+\\s*only in priceKeywords
AM_priceKeywordsOther ==
  { [items |-> <<One(BS)>>, a |-> FALSE, z |-> TRUE],
    Alt(BackslashDecimal),
    Alt(<<One(BS), Plus("d"), One(BS), Star("s")>> \o Lit("only")) }

AM_filter(s) == ~(Len(s) < AM_minLen \/ Len(s) > AM_maxLen)

AM_gate(s) ==
  (test(AM_foodKeywords, {}, s) \/ test(AM_priceKeywords, AM_priceKeywordsOther, s))
    /\ ~test(AM_navigationKeywords, {}, s)

AM_lines(s) == filterTrimmedLonger(split(s, BackslashN), 0)

\* lines[0]?.trim() || text.substring(0, 100).trim()
AM_itemName(s) ==
  LET lines == AM_lines(s)
  IN  IF lines # <<>> THEN trim(lines[1]) ELSE trim(substring0(s, AM_maxNameLen))

\* The tail (?:\\.\\d{2})? of the price groups
AM_fractionTail == <<One(BS), One("ANY"), One(BS), Rep("d", 2, 2)>>

\* pricePatterns, in the order of the array
AM_pricePatterns ==
  << Pattern(<<One("₹"), One(BS), Star("s")>>, <<One(BS), Plus("d")>>, AM_fractionTail, <<>>),
     Pattern(<<One("r"), One("s"), One(BS), Opt("ANY"), One(BS), Star("s")>>,
             <<One(BS), Plus("d")>>, <<>>, <<>>),
     Pattern(<<One(BS), One("END"), One(BS), Star("s")>>, <<One(BS), Plus("d")>>, AM_fractionTail, <<>>),
     Pattern(Lit("aed") \o <<One(BS), Star("s")>>, <<One(BS), Plus("d")>>, <<>>, <<>>),
     Pattern(Lit("sar") \o <<One(BS), Star("s")>>, <<One(BS), Plus("d")>>, <<>>, <<>>),
     Pattern(<<>>, <<One(BS), Plus("d")>>, <<>>, <<One(BS), Star("s"), One("₹")>>),
     Pattern(<<>>, <<One(BS), Plus("d")>>, <<>>, <<One(BS), Star("s")>> \o Lit("rs")) >>

AM_price(s) == FirstPrice(AM_pricePatterns, 1, s)

\* The if / else-if chain of the category rows, tested on itemText
AM_categoryTable ==
  <<
     \* unnamed/part_000:177  /starter|appetizer|soup|salad|tikka|kebab|samosa|pa.../i
     << { "starter", "appetizer", "soup", "salad", "tikka", "kebab", "samosa", "pakora",
          "chaat", "cutlet", "finger food" }, "starter" >>,
     \* unnamed/part_000:179  /dessert|sweet|ice cream|cake|kulfi|gulab jamun|ras.../i
     << { "dessert", "sweet", "ice cream", "cake", "kulfi", "gulab jamun", "rasmalai",
          "kheer", "halwa", "payasam", "rabri", "falooda", "brownie", "pastry", "mousse",
          "tart", "pie" }, "dessert" >>,
     \* unnamed/part_000:181  /rice|biryani|pulao|fried rice|jeera rice|coconut r.../i
     << { "rice", "biryani", "pulao", "fried rice", "jeera rice", "coconut rice",
          "lemon rice" }, "rice" >>,
     \* unnamed/part_000:183  /bread|naan|roti|paratha|kulcha|chapati|puri|bhatur.../i
     << { "bread", "naan", "roti", "paratha", "kulcha", "chapati", "puri", "bhatura" }, "bread" >>,
     \* unnamed/part_000:185  /dal|curry|gravy|sabji|subzi|korma|masala|kadai/i
     << { "dal", "curry", "gravy", "sabji", "subzi", "korma", "masala", "kadai" }, "curry" >>,
     \* unnamed/part_000:187  /drink|beverage|juice|lassi|tea|coffee|shake|smooth.../i
     << { "drink", "beverage", "juice", "lassi", "tea", "coffee", "shake", "smoothie",
          "water", "soda", "cola", "lemonade", "mojito", "cocktail", "wine", "beer",
          "whiskey", "vodka" }, "beverage" >>,
     \* unnamed/part_000:189  /pizza/i
     << { "pizza" }, "pizza" >>,
     \* unnamed/part_000:191  /burger/i
     << { "burger" }, "burger" >>,
     \* unnamed/part_000:193  /pasta|noodles|spaghetti|penne|fusilli|lasagna/i
     << { "pasta", "noodles", "spaghetti", "penne", "fusilli", "lasagna" }, "pasta" >>,
     \* unnamed/part_000:195  /sandwich|roll|wrap|sub|panini/i
     << { "sandwich", "roll", "wrap", "sub", "panini" }, "snack" >>
  >>

\* The if / else-if chain of the spice level
AM_spiceTable ==
  <<
     \* unnamed/part_000:219  /mild|not spicy|less spicy/i
     << { "mild", "not spicy", "less spicy" }, "mild" >>,
     \* unnamed/part_000:220  /medium spicy|moderately spicy/i
     << { "medium spicy", "moderately spicy" }, "medium" >>,
     \* unnamed/part_000:221  /spicy|hot|very spicy|extra spicy/i
     << { "spicy", "hot", "very spicy", "extra spicy" }, "spicy" >>
  >>

\* The checks that push a tag to dietaryInfo, in their order
AM_dietaryTable ==
  <<
     \* unnamed/part_000:201  /veg|vegetarian/i && !/non.veg|chicken|mutton|fish|egg|meat/i
     [ tag |-> "vegetarian",
       yes |-> { "veg", "vegetarian" }, yesOther |-> {},
       no |-> { "chicken", "mutton", "fish", "egg", "meat" }, noOther |-> {DotWord("non", "veg")} ],
     \* unnamed/part_000:204  /non.veg|chicken|mutton|fish|meat|egg|beef|lamb|pork/i
     [ tag |-> "non-vegetarian",
       yes |-> { "chicken", "mutton", "fish", "meat", "egg", "beef", "lamb", "pork" }, yesOther |-> {DotWord("non", "veg")},
       no |-> {}, noOther |-> {} ],
     \* unnamed/part_000:207  /jain/i
     [ tag |-> "jain",
       yes |-> { "jain" }, yesOther |-> {},
       no |-> {}, noOther |-> {} ],
     \* unnamed/part_000:210  /vegan/i
     [ tag |-> "vegan",
       yes |-> { "vegan" }, yesOther |-> {},
       no |-> {}, noOther |-> {} ],
     \* unnamed/part_000:213  /gluten.free/i
     [ tag |-> "gluten-free",
       yes |-> {  }, yesOther |-> {DotWord("gluten", "free")},
       no |-> {}, noOther |-> {} ]
  >>

\* unnamed/part_000:224  cuisinePattern, the alternatives in their order
AM_cuisinePattern ==
  << "north indian", "south indian", "chinese", "italian", "mexican", "thai",
     "american", "continental", "arabic", "lebanese", "turkish", "iranian", "punjabi",
     "gujarati", "maharashtrian", "bengali", "rajasthani", "kerala", "tamil",
     "kashmiri", "hyderabadi", "lucknowi", "awadhi", "mughlai", "street food",
     "fast food" >>


AM_category(s) == FirstRow(AM_categoryTable, 1, toLowerCase(s), "main")

AM_spiceLevel(s) == FirstRow(AM_spiceTable, 1, toLowerCase(s), null)

AM_dietaryInfo(s) == Tags(AM_dietaryTable, 1, toLowerCase(s))

AM_cuisine(s) == FirstMatch(AM_cuisinePattern, s)

\* The record of menuItems.push({...})
AM_assemble(s) ==
  [ name |-> AM_itemName(s),
    price |-> AM_price(s),
    category |-> AM_category(s),
    cuisine_type |-> AM_cuisine(s),
    dietary_info |-> AM_dietaryInfo(s),
    spice_level |-> AM_spiceLevel(s),
    is_available |-> ~test(AM_unavailable, {}, s),
    is_popular |-> test(AM_popular, {}, s) ]

\* (element, index) => { ... } of extractAllMenuItems
AM_callback(innerText) ==
  LET s == trim(innerText)
  IN  IF ~AM_filter(s) THEN NoRecord
      ELSE IF ~AM_gate(s) THEN NoRecord
      ELSE IF ~(Len(AM_itemName(s)) > 2 /\ Len(AM_itemName(s)) < 200) THEN NoRecord
      ELSE AM_assemble(s)

---------------------------------------------------------------------------
(* Removing duplicates from the records of a page *)

\* a === b: NaN is not equal to itself
StrictEquals(a, b) == a = b /\ a # NaN

\* A test of the names only
exactDuplicateByName(existing, it) == toLowerCase(existing.name) = toLowerCase(it.name)

\* part_000, extractAllMenuItems: the same name in lower case and the same price
exactDuplicate(existing, it) ==
  toLowerCase(existing.name) = toLowerCase(it.name) /\ StrictEquals(existing.price, it.price)

\* The ways two records are told to be duplicates: by name and price, by
\* name, or by name and by the first characters of the names longer than a
\* given length
ExactKey == [key |-> "name and price"]
ExactName == [key |-> "name"]
FuzzyPrefix(longer, prefix) == [key |-> "prefix", longer |-> longer, prefix |-> prefix]

\* comprehensive-scraper.js, scrapePlatform, and part_002,
\* scrapeRestaurantWithImages (names longer than 8, first 6 characters), and
\* working-scraper.js, scrapeAreaUltraDetailed (longer than 10, first 8): the
\* same name in lower case, or, both names longer, one holds the first
\* characters of the other
isDuplicate(restaurant, existing, longer, prefix) ==
  LET name1 == toLowerCase(restaurant.name)
      name2 == toLowerCase(existing.name)
  IN  \/ name1 = name2
      \/ /\ Len(name1) > longer /\ Len(name2) > longer
         /\ (includes(name1, substring0(name2, prefix))
               \/ includes(name2, substring0(name1, prefix)))

\* working-scraper.js, extractCompleteMenu: the same name in lower case, or
\* each name holds the first 8 characters of the other
WM_isDuplicate(existing, it) ==
  LET name1 == toLowerCase(existing.name)
      name2 == toLowerCase(it.name)
  IN  \/ name1 = name2
      \/ /\ includes(name1, substring0(name2, 8))
         /\ includes(name2, substring0(name1, 8))

\* working-scraper.js, scrapeRestaurants: one name in lower case holds the
\* first 10 characters of the other
WR_isDuplicate(existing, restaurant) ==
  LET name1 == toLowerCase(existing.name)
      name2 == toLowerCase(restaurant.name)
  IN  \/ includes(name1, substring0(name2, 10))
      \/ includes(name2, substring0(name1, 10))

\* The tests of working-scraper.js as ways to tell duplicates
MutualPrefix == [key |-> "prefix of each"]
EitherPrefix == [key |-> "prefix of either"]

Duplicate(policy, existing, it) ==
  CASE policy.key = "name and price" -> exactDuplicate(existing, it)
    [] policy.key = "name" -> toLowerCase(existing.name) = toLowerCase(it.name)
    [] policy.key = "prefix" -> isDuplicate(it, existing, policy.longer, policy.prefix)
    [] policy.key = "prefix of each" -> WM_isDuplicate(existing, it)
    [] policy.key = "prefix of either" -> WR_isDuplicate(existing, it)

\* A loop that tests list[k] against list[k - 1] only
RECURSIVE uniqueOfNeighbours(_, _, _, _)
uniqueOfNeighbours(policy, list, k, kept) ==
  IF k > Len(list) THEN kept
  ELSE uniqueOfNeighbours(policy, list, k + 1,
         IF k > 1 /\ Duplicate(policy, list[k - 1], list[k]) THEN kept
         ELSE Append(kept, list[k]))

\* A loop that keeps the names of the records in lower case
RECURSIVE uniqueOfLowerCased(_, _, _, _)
uniqueOfLowerCased(policy, list, k, kept) ==
  IF k > Len(list) THEN kept
  ELSE uniqueOfLowerCased(policy, list, k + 1,
         IF \E e \in DOMAIN kept : Duplicate(policy, kept[e], list[k]) THEN kept
         ELSE Append(kept, [list[k] EXCEPT !.name = toLowerCase(@)]))

\* list.forEach(x => { if (!kept.some(existing => duplicate)) kept.push(x) }),
\* from list[k] on
RECURSIVE uniqueOf(_, _, _, _)
uniqueOf(policy, list, k, kept) ==
  IF k > Len(list) THEN kept
  ELSE uniqueOf(policy, list, k + 1,
         IF \E e \in DOMAIN kept : Duplicate(policy, kept[e], list[k]) THEN kept
         ELSE Append(kept, list[k]))

\* Array.prototype.slice(0, n)
slice(list, n) == SubSeq(list, 1, Min(n, Len(list)))

\* sorted with x put behind the records whose image_score is greater or equal
RECURSIVE insertBehindTies(_, _)
insertBehindTies(x, sorted) ==
  IF sorted = <<>> THEN <<x>>
  ELSE IF Head(sorted).image_score >= x.image_score
       THEN <<Head(sorted)>> \o insertBehindTies(x, Tail(sorted))
       ELSE <<x>> \o sorted

\* sorted with x put in front of the first record whose image_score is not
\* greater
RECURSIVE insert(_, _)
insert(x, sorted) ==
  IF sorted = <<>> THEN <<x>>
  ELSE IF Head(sorted).image_score > x.image_score
       THEN <<Head(sorted)>> \o insert(x, Tail(sorted))
       ELSE <<x>> \o sorted

\* results.sort((a, b) => (b.image_score || 0) - (a.image_score || 0)):
\* descending, and stable
RECURSIVE sort(_)
sort(list) == IF list = <<>> THEN <<>> ELSE insert(Head(list), sort(Tail(list)))

PlatformLimit == 30
ImagesLimit == 25

\* comprehensive-scraper.js, scrapePlatform: what page.evaluate returns
scrapePlatform(list) == slice(uniqueOf(FuzzyPrefix(8, 6), list, 1, <<>>), PlatformLimit)

\* part_002, scrapeRestaurantWithImages: what page.evaluate returns
scrapeRestaurantWithImages(list) ==
  slice(uniqueOf(FuzzyPrefix(8, 6), sort(list), 1, <<>>), ImagesLimit)

\* part_000, extractAllMenuItems: what page.evaluate returns
extractAllMenuItems(list) == uniqueOf(ExactKey, list, 1, <<>>)

\* unlimited-scraper.js, extractAllRestaurantsFromArea: what page.evaluate
\* returns for one URL, and what the function returns for all of them
uniqueByName(list) == uniqueOf(ExactName, list, 1, <<>>)

UrlLimit == 50

\* working-scraper.js, scrapeAreaUltraDetailed: what page.evaluate returns for
\* one URL; a record whose name has no more than 3 characters is not kept
scrapeAreaUltraDetailed(list) ==
  slice(uniqueOf(FuzzyPrefix(10, 8), SelectSeq(list, LAMBDA x : Len(x.name) > 3), 1, <<>>),
        UrlLimit)

\* working-scraper.js, extractCompleteMenu: what page.evaluate returns
extractCompleteMenuUnique(list) == uniqueOf(MutualPrefix, list, 1, <<>>)

RestaurantsLimit == 50

\* working-scraper.js, scrapeRestaurants: what page.evaluate returns; a record
\* whose name has no more than 3 characters is not kept
scrapeRestaurantsUnique(list) ==
  slice(uniqueOf(EitherPrefix, SelectSeq(list, LAMBDA x : Len(x.name) > 3), 1, <<>>),
        RestaurantsLimit)

\* unlimited-scraper.js, extractCompleteRealMenu: the items the callback
\* pushed for the elements of the page, which page.evaluate returns as they are
RECURSIVE UM_items(_)
UM_items(elements) ==
  IF elements = <<>> THEN <<>>
  ELSE (IF extractCompleteRealMenu(Head(elements)) = NoRecord THEN <<>>
        ELSE <<extractCompleteRealMenu(Head(elements))>>) \o UM_items(Tail(elements))

---------------------------------------------------------------------------
(* The texts an element can hold *)

MaxTokens == 2
FillerRepeats == 126

RECURSIVE Repeat(_, _)
Repeat(w, n) ==
  IF n = 0 THEN ""
  ELSE IF n = 1 THEN w
  ELSE Repeat(w, n \div 2) \o Repeat(w, n - n \div 2)

\* A text longer than every maxLen of the callbacks, all of it food keywords
Filler == Repeat("biryani ", FillerRepeats)

Tokens ==
  { "Login", "Biryani", "Cake", "Soup", "Paneer", "Dal", "Royal", "Cafe", "Seasonal",
    "₹299", "Rs.350", "Rating 4.5", "\nLogin to continue", "₹" \o BS \o "d", Filler }

RECURSIVE JoinTokens(_)
JoinTokens(ws) ==
  IF Len(ws) = 1 THEN ws[1] ELSE ws[1] \o " " \o JoinTokens(Tail(ws))

TokenTexts ==
  { JoinTokens(ws) : ws \in UNION { [1..n -> Tokens] : n \in 1..MaxTokens } }

\* The fragments the specification of the pipeline gives as examples
Fixtures ==
  { "Order Biryani Now - Login to continue",
    "Butter Chicken ₹299 (was Rs.350)",
    "Paneer Tikka - Spicy starter, serves 2",
    "Chicken Biryani with Gulab Jamun",
    "Classic Margherita Pizza\nFresh mozzarella and basil\n$12.99" }

MaxFieldTokens == 2

\* Words the field extractors look for
FieldTokens ==
  { "Veg", "Vegetarian", "Beef", "Prawn", "Mild", "Very Spicy", "Ghost Pepper",
    "Italian", "Chinese", "Sold Out" }

\* A dish followed by some of these words
FieldTexts ==
  { JoinTokens(<<"Naan">> \o ws) : ws \in UNION { [1..n -> FieldTokens] : n \in 1..MaxFieldTokens } }

\* A single line longer than every maxNameLen and shorter than every maxLen
LongLine == Repeat("biryani ", 16)

\* A name of three characters, and characters a name does not keep
ShortName == "Bar ₹₹₹₹₹₹₹"

Texts == TokenTexts \cup Fixtures \cup FieldTexts \cup {LongLine, ShortName}

---------------------------------------------------------------------------
(* The element callbacks as a state machine: one element, one callback *)

\* What the variables of the other state machines hold while one runs
NoCallback == text = "" /\ index = 0 /\ record = NoRecord
NoDedup == results = <<>> /\ unique = <<>>
NoRun == urls = <<>> /\ allRestaurants = <<>>
NoPersist == restaurants = <<>> /\ r = 0 /\ item = 0 /\ attempts = <<>> /\ job = <<>>
NoPlaces ==
  /\ failures = 0 /\ cityIndex = 0 /\ nextPageToken = "null" /\ pages = 0 /\ places = 0
  /\ placeIndex = 0
  /\ totalRestaurants = 0 /\ totalProcessed = 0 /\ last = "none"
NoCaptcha ==
  /\ apiKey = FALSE /\ submitData = "" /\ poll = 0 /\ resultData = "" /\ returned = "pending"
NoBrowser == browser = "none" /\ closes = 0 /\ urlIndex = 0 /\ outcome = "pending"
NoTable == rows = <<>> /\ selection = {}
NoPage == allElements = <<>> /\ NoPlaces /\ NoCaptcha /\ NoBrowser /\ NoTable

\* if (index > N) return: the callbacks that take the index, and their N
maxIndex ==
  [ scrapeSwiggy |-> SW_maxIndex, scrapeMenus |-> CM_maxIndex,
    scrapeRestaurants |-> WR_maxIndex, extractCompleteMenu |-> WM_maxIndex ]

Scrapers ==
  {"extractCompleteRealMenu", "extractAllRestaurantsFromArea", "extractAllMenuItems"}
    \cup DOMAIN maxIndex

Init ==
  /\ scraper \in Scrapers
  /\ text \in Texts
  /\ index \in {0} \cup (IF scraper \in DOMAIN maxIndex THEN {maxIndex[scraper] + 1} ELSE {})
  /\ record = NoRecord
  /\ pc = "element"
  /\ NoDedup /\ NoRun /\ NoPersist /\ NoPage

Callback_extractCompleteRealMenu ==
  /\ pc = "element"
  /\ scraper = "extractCompleteRealMenu"
  /\ record' = extractCompleteRealMenu(text)
  /\ pc' = "done"
  /\ UNCHANGED <<scraper, pageVars, text, index, dedupVars, runVars, persistVars>>

Callback_extractAllRestaurantsFromArea ==
  /\ pc = "element"
  /\ scraper = "extractAllRestaurantsFromArea"
  /\ record' = extractAllRestaurantsFromArea(text)
  /\ pc' = "done"
  /\ UNCHANGED <<scraper, pageVars, text, index, dedupVars, runVars, persistVars>>

Callback_scrapeSwiggy ==
  /\ pc = "element"
  /\ scraper = "scrapeSwiggy"
  /\ record' = scrapeSwiggy(text, index)
  /\ pc' = "done"
  /\ UNCHANGED <<scraper, pageVars, text, index, dedupVars, runVars, persistVars>>

Callback_scrapeMenus ==
  /\ pc = "element"
  /\ scraper = "scrapeMenus"
  /\ record' = scrapeMenus(text, index)
  /\ pc' = "done"
  /\ UNCHANGED <<scraper, pageVars, text, index, dedupVars, runVars, persistVars>>

Callback_scrapeRestaurants ==
  /\ pc = "element"
  /\ scraper = "scrapeRestaurants"
  /\ record' = scrapeRestaurants(text, index)
  /\ pc' = "done"
  /\ UNCHANGED <<scraper, pageVars, text, index, dedupVars, runVars, persistVars>>

Callback_extractCompleteMenu ==
  /\ pc = "element"
  /\ scraper = "extractCompleteMenu"
  /\ record' = extractCompleteMenu(text, index)
  /\ pc' = "done"
  /\ UNCHANGED <<scraper, pageVars, text, index, dedupVars, runVars, persistVars>>

Callback_extractAllMenuItems ==
  /\ pc = "element"
  /\ scraper = "extractAllMenuItems"
  /\ record' = AM_callback(text)
  /\ pc' = "done"
  /\ UNCHANGED <<scraper, pageVars, text, index, dedupVars, runVars, persistVars>>

Next ==
  \/ Callback_extractCompleteRealMenu
  \/ Callback_extractAllRestaurantsFromArea
  \/ Callback_scrapeSwiggy
  \/ Callback_scrapeMenus
  \/ Callback_scrapeRestaurants
  \/ Callback_extractCompleteMenu
  \/ Callback_extractAllMenuItems

Spec == Init /\ [][Next]_vars

---------------------------------------------------------------------------
(* Removing duplicates as a state machine: one page, one list of records *)

MaxRecords == 3

\* Names that hold each other's first 6 characters (the first and third, the
\* second and third, not the first and second), names that differ in case
\* only, and a name too short for the prefix test
RestaurantNames ==
  {"Pizza Hut Express", "Burger King Cafe", "Burger Pizza Hut", "pizza hut express", "Subway"}

ImageScores == {0, 5}

RestaurantRecords == [name : RestaurantNames, image_score : ImageScores]

\* The prices the price patterns of part_000 give: none matched, or the
\* capture was no number
MenuItemRecords == [name : {"Paneer Tikka", "paneer tikka", "Dal Fry"}, price : {null, NaN}]

\* Names of which one holds the first 8 characters of the other, and not the
\* other way round
DishRecords ==
  [name : {"Chicken Biryani", "Spicy Chicken Biryani", "chicken biryani", "Dal"}, price : {null}]

ListsOf(S) == UNION { [1..n -> S] : n \in 0..MaxRecords }

\* More records than a page may return, no two of them duplicates
ManyRestaurants ==
  [k \in 1..(PlatformLimit + 1) |->
     [name |-> "Cafe " \o ToString(k), image_score |-> IF k % 2 = 0 THEN 5 ELSE 0]]

InitDedup ==
  /\ scraper \in {"scrapePlatform", "scrapeRestaurantWithImages", "extractAllMenuItems",
                  "extractCompleteMenu", "scrapeRestaurants", "extractAllRestaurantsFromArea"}
  /\ results \in CASE scraper = "extractAllMenuItems" -> ListsOf(MenuItemRecords)
                   [] scraper = "extractCompleteMenu" -> ListsOf(DishRecords)
                   [] OTHER -> ListsOf(RestaurantRecords) \cup {ManyRestaurants}
  /\ unique = <<>>
  /\ pc = "results"
  /\ NoCallback /\ NoRun /\ NoPersist /\ NoPage

Unique_scrapePlatform ==
  /\ pc = "results"
  /\ scraper = "scrapePlatform"
  /\ unique' = scrapePlatform(results)
  /\ pc' = "unique"
  /\ UNCHANGED <<scraper, pageVars, results, callbackVars, runVars, persistVars>>

Unique_scrapeRestaurantWithImages ==
  /\ pc = "results"
  /\ scraper = "scrapeRestaurantWithImages"
  /\ unique' = scrapeRestaurantWithImages(results)
  /\ pc' = "unique"
  /\ UNCHANGED <<scraper, pageVars, results, callbackVars, runVars, persistVars>>

Unique_extractAllMenuItems ==
  /\ pc = "results"
  /\ scraper = "extractAllMenuItems"
  /\ unique' = extractAllMenuItems(results)
  /\ pc' = "unique"
  /\ UNCHANGED <<scraper, pageVars, results, callbackVars, runVars, persistVars>>

Unique_extractCompleteMenu ==
  /\ pc = "results"
  /\ scraper = "extractCompleteMenu"
  /\ unique' = extractCompleteMenuUnique(results)
  /\ pc' = "unique"
  /\ UNCHANGED <<scraper, pageVars, results, callbackVars, runVars, persistVars>>

Unique_scrapeRestaurants ==
  /\ pc = "results"
  /\ scraper = "scrapeRestaurants"
  /\ unique' = scrapeRestaurantsUnique(results)
  /\ pc' = "unique"
  /\ UNCHANGED <<scraper, pageVars, results, callbackVars, runVars, persistVars>>

Unique_extractAllRestaurantsFromArea ==
  /\ pc = "results"
  /\ scraper = "extractAllRestaurantsFromArea"
  /\ unique' = uniqueByName(results)
  /\ pc' = "unique"
  /\ UNCHANGED <<scraper, pageVars, results, callbackVars, runVars, persistVars>>

NextDedup ==
  \/ Unique_scrapePlatform
  \/ Unique_scrapeRestaurantWithImages
  \/ Unique_extractAllMenuItems
  \/ Unique_extractCompleteMenu
  \/ Unique_scrapeRestaurants
  \/ Unique_extractAllRestaurantsFromArea

SpecDedup == InitDedup /\ [][NextDedup]_vars

---------------------------------------------------------------------------
(* Scraping the URLs of an area, or the menu page of a restaurant *)

MaxResults == 2

\* extractAllRestaurantsFromArea has two URLs; scrapeAreaUltraDetailed takes
\* urls.slice(0, 2) of one to three
UrlsPerArea == 2

FoundRestaurants == [name : {"Pizza Hut Express", "pizza hut express", "Burger King Cafe"}]

\* The element texts of a menu page
MenuTexts == {"Paneer", "Dal Biryani", "Login"}

PagesOf(S) == UNION { [1..n -> S] : n \in 0..MaxResults }

InitRun ==
  /\ scraper \in {"extractAllRestaurantsFromArea", "scrapeAreaUltraDetailed",
                  "extractCompleteRealMenu"}
  /\ urls \in CASE scraper = "extractAllRestaurantsFromArea" ->
                     [1..UrlsPerArea -> PagesOf(FoundRestaurants)]
                [] scraper = "scrapeAreaUltraDetailed" ->
                     UNION { [1..n -> PagesOf(FoundRestaurants)] : n \in 1..UrlsPerArea }
                [] scraper = "extractCompleteRealMenu" -> [1..1 -> PagesOf(MenuTexts)]
  /\ allRestaurants = <<>>
  /\ unique = <<>>
  /\ results = <<>>
  /\ pc = "urls"
  /\ NoCallback /\ NoPersist /\ NoPage

\* One turn of for (const url of urls): the page is scraped and its
\* restaurants are pushed
Url_extractAllRestaurantsFromArea ==
  /\ pc = "urls" /\ scraper = "extractAllRestaurantsFromArea"
  /\ urls # <<>>
  /\ allRestaurants' = allRestaurants \o uniqueByName(Head(urls))
  /\ urls' = Tail(urls)
  /\ UNCHANGED <<scraper, pageVars, pc, results, unique, callbackVars, persistVars>>

Url_scrapeAreaUltraDetailed ==
  /\ pc = "urls" /\ scraper = "scrapeAreaUltraDetailed"
  /\ urls # <<>>
  /\ allRestaurants' = allRestaurants \o scrapeAreaUltraDetailed(Head(urls))
  /\ urls' = Tail(urls)
  /\ UNCHANGED <<scraper, pageVars, pc, results, unique, callbackVars, persistVars>>

\* page.goto or page.evaluate throws: the catch inside the loop logs it
UrlFails ==
  /\ pc = "urls" /\ scraper \in {"extractAllRestaurantsFromArea", "scrapeAreaUltraDetailed"}
  /\ urls # <<>>
  /\ urls' = Tail(urls)
  /\ UNCHANGED <<scraper, pageVars, pc, allRestaurants, results, unique, callbackVars,
                 persistVars>>

\* After the loop: duplicates across the URLs are removed
Return_extractAllRestaurantsFromArea ==
  /\ pc = "urls" /\ scraper = "extractAllRestaurantsFromArea"
  /\ urls = <<>>
  /\ unique' = uniqueByName(allRestaurants)
  /\ pc' = "returned"
  /\ UNCHANGED <<scraper, pageVars, urls, allRestaurants, results, callbackVars, persistVars>>

\* After the loop: return allRestaurants
Return_scrapeAreaUltraDetailed ==
  /\ pc = "urls" /\ scraper = "scrapeAreaUltraDetailed"
  /\ urls = <<>>
  /\ unique' = allRestaurants
  /\ pc' = "returned"
  /\ UNCHANGED <<scraper, pageVars, urls, allRestaurants, results, callbackVars, persistVars>>

\* return menuItems, the items of the page
Return_extractCompleteRealMenu ==
  /\ pc = "urls" /\ scraper = "extractCompleteRealMenu"
  /\ unique' = UM_items(Head(urls))
  /\ urls' = Tail(urls)
  /\ pc' = "returned"
  /\ UNCHANGED <<scraper, pageVars, allRestaurants, results, callbackVars, persistVars>>

\* The catch of extractCompleteRealMenu: return []
Fails_extractCompleteRealMenu ==
  /\ pc = "urls" /\ scraper = "extractCompleteRealMenu"
  /\ unique' = <<>>
  /\ urls' = Tail(urls)
  /\ pc' = "returned"
  /\ UNCHANGED <<scraper, pageVars, allRestaurants, results, callbackVars, persistVars>>

NextRun ==
  \/ Url_extractAllRestaurantsFromArea
  \/ Url_scrapeAreaUltraDetailed
  \/ UrlFails
  \/ Return_extractAllRestaurantsFromArea
  \/ Return_scrapeAreaUltraDetailed
  \/ Return_extractCompleteRealMenu
  \/ Fails_extractCompleteRealMenu

SpecRun == InitRun /\ [][NextRun]_vars

---------------------------------------------------------------------------
(* Saving the restaurants of a run and their menu items *)

MaxRestaurants == 2
MaxMenuItems == 2

\* What the website of a restaurant is to scrapeMenuData: zomato.com, a
\* platform whose scraping is not implemented, or unknown
Websites == {"zomato.com", "swiggy.com", "unknown"}

\* A restaurant of the run: its website and the number of menu items found
\* (scrapeMenuData finds none for a website other than zomato.com)
SavedRestaurants(name) ==
  IF name = "scrapeMenuData"
  THEN [website : {"zomato.com"}, menuItems : 0..MaxMenuItems]
         \cup [website : Websites \ {"zomato.com"}, menuItems : {0}]
  ELSE [website : {"zomato.com"}, menuItems : 0..MaxMenuItems]

InitPersist ==
  /\ scraper \in {"runUnlimitedScraper", "scrapeMenuData"}
  /\ restaurants \in UNION { [1..n -> SavedRestaurants(scraper)] : n \in 0..MaxRestaurants }
  /\ r = 1
  /\ item = 0
  /\ attempts = <<>>
  /\ job = [processed |-> 0, progress |-> 0, status |-> "running"]
  /\ pc = "restaurant"
  /\ NoCallback /\ NoDedup /\ NoRun /\ NoPage

\* A call of db.execute and how it ended
Attempt(table, k, ok) == [table |-> table, restaurant |-> r, item |-> k, ok |-> ok]

\* runUnlimitedScraper: saveRestaurant returns the id, the menu is extracted
\* and its items are gone through
SaveRestaurant ==
  /\ pc = "restaurant" /\ scraper = "runUnlimitedScraper"
  /\ r <= Len(restaurants)
  /\ attempts' = Append(attempts, Attempt("restaurants", 0, TRUE))
  /\ job' = [job EXCEPT !.processed = @ + 1]
  /\ item' = 1
  /\ pc' = "items"
  /\ UNCHANGED <<scraper, pageVars, restaurants, r, callbackVars, dedupVars, runVars>>

\* saveRestaurant catches the error and returns null: the restaurant has no
\* id, so its menu is left out
SaveRestaurantFails ==
  /\ pc = "restaurant" /\ scraper = "runUnlimitedScraper"
  /\ r <= Len(restaurants)
  /\ attempts' = Append(attempts, Attempt("restaurants", 0, FALSE))
  /\ r' = r + 1
  /\ UNCHANGED <<scraper, pageVars, pc, restaurants, item, job, callbackVars, dedupVars,
                 runVars>>

\* saveMenuItemComplete returns true
SaveMenuItem ==
  /\ pc = "items" /\ scraper = "runUnlimitedScraper"
  /\ item <= restaurants[r].menuItems
  /\ attempts' = Append(attempts, Attempt("menu_items", item, TRUE))
  /\ item' = item + 1
  /\ UNCHANGED <<scraper, pageVars, pc, restaurants, r, job, callbackVars, dedupVars, runVars>>

\* saveMenuItemComplete catches the error and returns false
SaveMenuItemFails ==
  /\ pc = "items" /\ scraper = "runUnlimitedScraper"
  /\ item <= restaurants[r].menuItems
  /\ attempts' = Append(attempts, Attempt("menu_items", item, FALSE))
  /\ item' = item + 1
  /\ UNCHANGED <<scraper, pageVars, pc, restaurants, r, job, callbackVars, dedupVars, runVars>>

\* The items of the restaurant are through
NextRestaurant ==
  /\ pc = "items" /\ scraper = "runUnlimitedScraper"
  /\ item > restaurants[r].menuItems
  /\ r' = r + 1
  /\ item' = 0
  /\ pc' = "restaurant"
  /\ UNCHANGED <<scraper, pageVars, restaurants, attempts, job, callbackVars, dedupVars,
                 runVars>>

\* scrapeMenuData: the menu of the restaurant is scraped; an unknown platform
\* is logged and the loop continues with the next restaurant
ScrapeMenu ==
  /\ pc = "restaurant" /\ scraper = "scrapeMenuData"
  /\ r <= Len(restaurants)
  /\ IF restaurants[r].website = "unknown"
     THEN r' = r + 1 /\ UNCHANGED <<pc, item>>
     ELSE item' = 1 /\ pc' = "items" /\ UNCHANGED r
  /\ UNCHANGED <<scraper, pageVars, restaurants, attempts, job, callbackVars, dedupVars,
                 runVars>>

\* await db.execute(INSERT INTO menu_items ...) for the next item
InsertMenuItem ==
  /\ pc = "items" /\ scraper = "scrapeMenuData"
  /\ item <= restaurants[r].menuItems
  /\ attempts' = Append(attempts, Attempt("menu_items", item, TRUE))
  /\ item' = item + 1
  /\ UNCHANGED <<scraper, pageVars, pc, restaurants, r, job, callbackVars, dedupVars, runVars>>

\* The INSERT throws: nothing catches it inside the loop over the items, the
\* catch of the loop over the restaurants logs it
InsertMenuItemFails ==
  /\ pc = "items" /\ scraper = "scrapeMenuData"
  /\ item <= restaurants[r].menuItems
  /\ attempts' = Append(attempts, Attempt("menu_items", item, FALSE))
  /\ r' = r + 1
  /\ item' = 0
  /\ pc' = "restaurant"
  /\ UNCHANGED <<scraper, pageVars, restaurants, job, callbackVars, dedupVars, runVars>>

\* Math.round((processed / restaurants.length) * 100)
Progress(processed, n) == (200 * processed + n) \div (2 * n)

\* UPDATE restaurants SET last_scraped, processed++, updateScrapingJob
UpdateLastScraped ==
  /\ pc = "items" /\ scraper = "scrapeMenuData"
  /\ item > restaurants[r].menuItems
  /\ attempts' = Append(attempts, Attempt("restaurants", 0, TRUE))
  /\ job' = [job EXCEPT !.processed = @ + 1,
                        !.progress = Progress(job.processed + 1, Len(restaurants))]
  /\ r' = r + 1
  /\ item' = 0
  /\ pc' = "restaurant"
  /\ UNCHANGED <<scraper, pageVars, restaurants, callbackVars, dedupVars, runVars>>

\* The UPDATE throws: the catch of the loop over the restaurants logs it
UpdateLastScrapedFails ==
  /\ pc = "items" /\ scraper = "scrapeMenuData"
  /\ item > restaurants[r].menuItems
  /\ attempts' = Append(attempts, Attempt("restaurants", 0, FALSE))
  /\ r' = r + 1
  /\ item' = 0
  /\ pc' = "restaurant"
  /\ UNCHANGED <<scraper, pageVars, restaurants, job, callbackVars, dedupVars, runVars>>

\* After the loop over the restaurants
Finish ==
  /\ pc = "restaurant"
  /\ r > Len(restaurants)
  /\ job' = IF scraper = "scrapeMenuData"
            THEN [job EXCEPT !.status = "completed", !.progress = 100]
            ELSE job
  /\ pc' = "finished"
  /\ UNCHANGED <<scraper, pageVars, restaurants, r, item, attempts, callbackVars, dedupVars,
                 runVars>>

\* scrapeMenuData: the UPDATE of updateScrapingJob(jobId, 'completed', 100)
\* throws, updateScrapingJob catches and logs it
FinishFails ==
  /\ pc = "restaurant" /\ scraper = "scrapeMenuData"
  /\ r > Len(restaurants)
  /\ attempts' = Append(attempts, Attempt("scraping_jobs", 0, FALSE))
  /\ pc' = "finished"
  /\ UNCHANGED <<scraper, pageVars, restaurants, r, item, job, callbackVars, dedupVars,
                 runVars>>

NextPersist ==
  \/ SaveRestaurant
  \/ SaveRestaurantFails
  \/ SaveMenuItem
  \/ SaveMenuItemFails
  \/ NextRestaurant
  \/ ScrapeMenu
  \/ InsertMenuItem
  \/ InsertMenuItemFails
  \/ UpdateLastScraped
  \/ UpdateLastScrapedFails
  \/ Finish
  \/ FinishFails

SpecPersist == InitPersist /\ [][NextPersist]_vars

---------------------------------------------------------------------------
(* The elements of a page, one after the other, and then the duplicates *)

MaxElements == 3

\* Names that differ in case only, another name, and a text that is no
\* restaurant
PageTexts == { "Royal Cafe", "ROYAL CAFE", "royal cafe", "Pizza Bar 4.5", "Login to continue" }

\* Array.prototype.unshift
unshift(list, x) == <<x>> \o list

\* Array.prototype.push
push(list, x) == Append(list, x)

InitPage ==
  /\ scraper = "extractAllRestaurantsFromArea"
  /\ allElements \in UNION { [1..n -> PageTexts] : n \in 0..MaxElements }
  /\ pc = IF allElements = <<>> THEN "results" ELSE "forEach"
  /\ NoCallback /\ NoDedup /\ NoRun /\ NoPersist /\ NoPlaces /\ NoCaptcha /\ NoBrowser /\ NoTable

\* unlimited-scraper.js, extractAllRestaurantsFromArea: allElements.forEach
\* calls the callback with the next element, and the callback has returned
ForEach_extractAllRestaurantsFromArea ==
  /\ pc = "forEach"
  /\ scraper = "extractAllRestaurantsFromArea"
  /\ index < Len(allElements)
  /\ text' = allElements[index + 1]
  /\ record' = extractAllRestaurantsFromArea(text')
  /\ results' = IF record' # NoRecord THEN push(results, record') ELSE results
  /\ index' = index + 1
  /\ pc' = IF index' = Len(allElements) THEN "results" ELSE "forEach"
  /\ UNCHANGED <<scraper, allElements, captchaVars, browserVars, tableVars, placesVars,
                 unique, runVars, persistVars>>

NextPage ==
  \/ ForEach_extractAllRestaurantsFromArea
  \/ Unique_extractAllRestaurantsFromArea

SpecPage == InitPage /\ [][NextPage]_vars

---------------------------------------------------------------------------
(* scrapeRestaurantData of data-scraper.js: the cities are gone through, the *)
(* places of a city are found page by page, and their details are saved in *)
(* batches, with the progress of the job written after each batch *)
(***************************************************************************)

MaxCities == 2
MaxPages == 2
MaxFailures == 2

BATCH_SIZE == 20
\* response.data.results.length: a page is empty, holds one place or is full
PageSizes == {0, 1, 20}
\* response.data.next_page_token
PageTokens == {null, "token"}

InitPlaces ==
  /\ scraper = "scrapeRestaurantData"
  /\ pc = "city"
  /\ failures = 0 /\ cityIndex = 0 /\ nextPageToken = null /\ pages = 0 /\ places = 0
  /\ placeIndex = 0 /\ totalRestaurants = 0 /\ totalProcessed = 0 /\ last = "none"
  /\ restaurants = <<>> /\ r = 0 /\ item = 0 /\ attempts = <<>>
  /\ job = [status |-> "running", progress |-> 0, written |-> 0]
  /\ allElements = <<>>
  /\ NoCallback /\ NoDedup /\ NoRun /\ NoCaptcha /\ NoBrowser /\ NoTable

\* for (let i = 0; i < CONFIG.CITIES.length; i++): findRestaurantsByLocation
\* starts with no place and no token
StartCity ==
  /\ pc = "city" /\ scraper = "scrapeRestaurantData"
  /\ cityIndex < MaxCities
  /\ places' = 0
  /\ nextPageToken' = null
  /\ pages' = 0
  /\ pc' = "page"
  /\ UNCHANGED <<scraper, allElements, captchaVars, browserVars, tableVars, failures,
                 cityIndex, placeIndex, totalRestaurants, totalProcessed, last,
                 callbackVars, dedupVars, runVars, persistVars>>

\* findRestaurantsByLocation returns: totalRestaurants += restaurants.length,
\* and the loop over the batches starts, or the next city when there is no place
ReturnPlaces(found) ==
  /\ totalRestaurants' = totalRestaurants + found
  /\ placeIndex' = 0
  /\ IF found = 0
     THEN cityIndex' = cityIndex + 1 /\ pc' = "city"
     ELSE pc' = "details" /\ UNCHANGED cityIndex

\* await axios.get(url, { params }) answers OK or ZERO_RESULTS: the results
\* are pushed and the token of the next page is kept. The pages the API can
\* be asked for have no end: past MaxPages they are empty in the model
NearbySearch ==
  /\ pc = "page" /\ scraper = "scrapeRestaurantData"
  /\ \E n \in PageSizes, token \in PageTokens :
       /\ pages < MaxPages \/ n = 0
       /\ places' = places + n
       /\ nextPageToken' = token
  /\ pages' = Min(pages + 1, MaxPages)
  /\ last' = "request"
  /\ pc' = "rate limit"
  /\ UNCHANGED <<scraper, allElements, captchaVars, browserVars, tableVars, failures,
                 cityIndex, placeIndex, totalRestaurants, totalProcessed, callbackVars,
                 dedupVars, runVars, persistVars>>

\* The request throws or the status is an error: the catch logs and breaks,
\* what was found so far is returned
NearbySearchFails ==
  /\ pc = "page" /\ scraper = "scrapeRestaurantData"
  /\ failures < MaxFailures
  /\ failures' = failures + 1
  /\ last' = "request"
  /\ ReturnPlaces(places)
  /\ UNCHANGED <<scraper, allElements, captchaVars, browserVars, tableVars, nextPageToken,
                 pages, places, totalProcessed, callbackVars, dedupVars, runVars,
                 persistVars>>

\* await setTimeout(CONFIG.DELAY_BETWEEN_REQUESTS), then while (nextPageToken)
RateLimit ==
  /\ pc = "rate limit" /\ scraper = "scrapeRestaurantData"
  /\ last' = "delay"
  /\ IF nextPageToken # null
     THEN pc' = "page" /\ UNCHANGED <<cityIndex, placeIndex, totalRestaurants>>
     ELSE ReturnPlaces(places)
  /\ UNCHANGED <<scraper, allElements, captchaVars, browserVars, tableVars, failures,
                 nextPageToken, pages, places, totalProcessed, callbackVars, dedupVars,
                 runVars, persistVars>>

\* The place is through: the next one of the batch, or the progress after the
\* last one of the batch
NextPlace ==
  /\ placeIndex' = placeIndex + 1
  /\ pc' = IF (placeIndex + 1) % BATCH_SIZE = 0 \/ placeIndex + 1 = places
           THEN "progress" ELSE "details"

\* getRestaurantDetails: await axios.get(url, { params }) answers OK
GetDetails ==
  /\ pc = "details" /\ scraper = "scrapeRestaurantData"
  /\ last' = "request"
  /\ pc' = "details delay"
  /\ UNCHANGED <<scraper, allElements, captchaVars, browserVars, tableVars, failures,
                 cityIndex, nextPageToken, pages, places, placeIndex, totalRestaurants,
                 totalProcessed, callbackVars, dedupVars, runVars, persistVars>>

\* The request throws or the status is not OK: the catch logs and returns
\* null, and the place is left out
GetDetailsFails ==
  /\ pc = "details" /\ scraper = "scrapeRestaurantData"
  /\ failures < MaxFailures
  /\ failures' = failures + 1
  /\ last' = "request"
  /\ NextPlace
  /\ UNCHANGED <<scraper, allElements, captchaVars, browserVars, tableVars, cityIndex,
                 nextPageToken, pages, places, totalRestaurants, totalProcessed,
                 callbackVars, dedupVars, runVars, persistVars>>

\* getRestaurantDetails: await setTimeout(CONFIG.DELAY_BETWEEN_REQUESTS)
\* before the result is returned
DetailsRateLimit ==
  /\ pc = "details delay" /\ scraper = "scrapeRestaurantData"
  /\ last' = "delay"
  /\ pc' = "save"
  /\ UNCHANGED <<scraper, allElements, captchaVars, browserVars, tableVars, failures,
                 cityIndex, nextPageToken, pages, places, placeIndex, totalRestaurants,
                 totalProcessed, callbackVars, dedupVars, runVars, persistVars>>

\* await saveRestaurant(details, city); totalProcessed++
SavePlace ==
  /\ pc = "save" /\ scraper = "scrapeRestaurantData"
  /\ totalProcessed' = totalProcessed + 1
  /\ NextPlace
  /\ UNCHANGED <<scraper, allElements, captchaVars, browserVars, tableVars, failures,
                 cityIndex, nextPageToken, pages, places, totalRestaurants, last,
                 callbackVars, dedupVars, runVars, persistVars>>

\* saveRestaurant throws: the catch of the loop over the batch logs it
SavePlaceFails ==
  /\ pc = "save" /\ scraper = "scrapeRestaurantData"
  /\ failures < MaxFailures
  /\ failures' = failures + 1
  /\ NextPlace
  /\ UNCHANGED <<scraper, allElements, captchaVars, browserVars, tableVars, cityIndex,
                 nextPageToken, pages, places, totalRestaurants, totalProcessed, last,
                 callbackVars, dedupVars, runVars, persistVars>>

\* After the batch: the next batch of the city, or the next city
NextBatch ==
  IF placeIndex = places
  THEN cityIndex' = cityIndex + 1 /\ pc' = "city"
  ELSE pc' = "details" /\ UNCHANGED cityIndex

\* await updateScrapingJob(jobId, 'running', progress)
BatchProgress ==
  /\ pc = "progress" /\ scraper = "scrapeRestaurantData"
  /\ job' = [job EXCEPT !.status = "running",
                        !.progress = Progress(totalProcessed, totalRestaurants)]
  /\ NextBatch
  /\ UNCHANGED <<scraper, allElements, captchaVars, browserVars, tableVars, failures,
                 nextPageToken, pages, places, placeIndex, totalRestaurants, totalProcessed,
                 last, restaurants, r, item, attempts, callbackVars, dedupVars, runVars>>

\* The UPDATE throws: updateScrapingJob catches and logs it
BatchProgressFails ==
  /\ pc = "progress" /\ scraper = "scrapeRestaurantData"
  /\ failures < MaxFailures
  /\ failures' = failures + 1
  /\ NextBatch
  /\ UNCHANGED <<scraper, allElements, captchaVars, browserVars, tableVars, nextPageToken,
                 pages, places, placeIndex, totalRestaurants, totalProcessed, last,
                 callbackVars, dedupVars, runVars, persistVars>>

\* After the cities: await updateScrapingJob(jobId, 'completed', 100, ...),
\* then the finally block ends the connection
CompleteJob ==
  /\ pc = "city" /\ scraper = "scrapeRestaurantData"
  /\ cityIndex = MaxCities
  /\ job' = [job EXCEPT !.status = "completed", !.progress = 100, !.written = @ + 1]
  /\ pc' = "returned"
  /\ UNCHANGED <<scraper, allElements, captchaVars, browserVars, tableVars, placesVars,
                 restaurants, r, item, attempts, callbackVars, dedupVars, runVars>>

\* The UPDATE throws: updateScrapingJob catches and logs it, nothing reaches
\* the catch of scrapeRestaurantData
CompleteJobFails ==
  /\ pc = "city" /\ scraper = "scrapeRestaurantData"
  /\ cityIndex = MaxCities
  /\ failures < MaxFailures
  /\ failures' = failures + 1
  /\ pc' = "returned"
  /\ UNCHANGED <<scraper, allElements, captchaVars, browserVars, tableVars, cityIndex,
                 nextPageToken, pages, places, placeIndex, totalRestaurants, totalProcessed,
                 last, callbackVars, dedupVars, runVars, persistVars>>

NextPlaces ==
  \/ StartCity
  \/ NearbySearch
  \/ NearbySearchFails
  \/ RateLimit
  \/ GetDetails
  \/ GetDetailsFails
  \/ DetailsRateLimit
  \/ SavePlace
  \/ SavePlaceFails
  \/ BatchProgress
  \/ BatchProgressFails
  \/ CompleteJob
  \/ CompleteJobFails

SpecPlaces == InitPlaces /\ [][NextPlaces]_vars

\* Every step that is awaited is taken once what it waits for has settled
SpecPlacesFair == SpecPlaces /\ WF_vars(NextPlaces)

(***************************************************************************)
(* solveCaptcha of data-scraper.js: the CAPTCHA is submitted to the solving *)
(* service and the solution is polled for *)
(***************************************************************************)

\* String.prototype.startsWith
startsWith(s, w) == Len(s) >= Len(w) /\ SubSeq(s, 1, Len(w)) = w

\* submitResponse.data of http://2captcha.com/in.php
SubmitResponses == {"OK|71", "OK|72", "ERROR_ZERO_BALANCE"}
\* resultResponse.data of http://2captcha.com/res.php
PollResponses == {"OK|03AGdBq", "OK|", "CAPCHA_NOT_READY", "ERROR_CAPTCHA_UNSOLVABLE"}

POLLS == 24
\* for (let i = 0; i <= 24; i++)
PollAgainInclusive(i) == i <= POLLS
\* for (let i = 0; i < 24; i++)
PollAgain(i) == i < POLLS

InitCaptcha ==
  /\ scraper = "solveCaptcha"
  /\ pc = "key"
  /\ apiKey \in BOOLEAN
  /\ submitData = "" /\ poll = 0 /\ resultData = "" /\ returned = "pending"
  /\ allElements = <<>>
  /\ NoCallback /\ NoDedup /\ NoRun /\ NoPersist /\ NoPlaces /\ NoBrowser /\ NoTable

\* solveCaptcha is run on its own or called by scrapeZomatoMenus, which goes
\* on with the solution
Solving == scraper \in {"solveCaptcha", "scrapeZomatoMenus"}
AfterSolveCaptcha == IF scraper = "scrapeZomatoMenus" THEN "solution" ELSE "returned"

\* if (!CONFIG.TWOCAPTCHA_API_KEY) return null
CheckKey ==
  /\ pc = "key" /\ Solving
  /\ IF apiKey
     THEN pc' = "submit" /\ UNCHANGED returned
     ELSE pc' = AfterSolveCaptcha /\ returned' = null
  /\ UNCHANGED <<scraper, allElements, placesVars, browserVars, tableVars, apiKey,
                 submitData, poll, resultData, callbackVars, dedupVars, runVars,
                 persistVars>>

\* await axios.post('http://2captcha.com/in.php', ...): a response that does
\* not start with 'OK|' is thrown and caught, and null is returned
Submit ==
  /\ pc = "submit" /\ Solving
  /\ \E data \in SubmitResponses :
       /\ submitData' = data
       /\ IF startsWith(data, "OK|")
          THEN pc' = "delay" /\ UNCHANGED returned
          ELSE pc' = AfterSolveCaptcha /\ returned' = null
  /\ UNCHANGED <<scraper, allElements, placesVars, browserVars, tableVars, apiKey, poll,
                 resultData, callbackVars, dedupVars, runVars, persistVars>>

\* axios.post throws: the catch logs and returns null
SubmitFails ==
  /\ pc = "submit" /\ Solving
  /\ pc' = AfterSolveCaptcha
  /\ returned' = null
  /\ UNCHANGED <<scraper, allElements, placesVars, browserVars, tableVars, apiKey,
                 submitData, poll, resultData, callbackVars, dedupVars, runVars,
                 persistVars>>

\* The head of the loop: await setTimeout(5000) before the next poll, or
\* throw new Error('CAPTCHA solving timeout') after the loop, which is caught
PollDelay ==
  /\ pc = "delay" /\ Solving
  /\ IF PollAgain(poll)
     THEN pc' = "poll" /\ UNCHANGED returned
     ELSE pc' = AfterSolveCaptcha /\ returned' = null
  /\ UNCHANGED <<scraper, allElements, placesVars, browserVars, tableVars, apiKey,
                 submitData, poll, resultData, callbackVars, dedupVars, runVars,
                 persistVars>>

\* await axios.get('http://2captcha.com/res.php?...'): the solution is
\* returned, the loop goes on when the solution is not ready, and any other
\* response is thrown and caught
Poll ==
  /\ pc = "poll" /\ Solving
  /\ poll' = poll + 1
  /\ \E data \in PollResponses :
       /\ resultData' = data
       /\ IF startsWith(data, "OK|")
          THEN pc' = AfterSolveCaptcha /\ returned' = split(data, "|")[2]
          ELSE IF data # "CAPCHA_NOT_READY"
          THEN pc' = AfterSolveCaptcha /\ returned' = null
          ELSE pc' = "delay" /\ UNCHANGED returned
  /\ UNCHANGED <<scraper, allElements, placesVars, browserVars, tableVars, apiKey, submitData,
                 callbackVars, dedupVars, runVars, persistVars>>

\* axios.get throws: the catch logs and returns null
PollFails ==
  /\ pc = "poll" /\ Solving
  /\ poll' = poll + 1
  /\ resultData' = "thrown"
  /\ pc' = AfterSolveCaptcha
  /\ returned' = null
  /\ UNCHANGED <<scraper, allElements, placesVars, browserVars, tableVars, apiKey, submitData,
                 callbackVars, dedupVars, runVars, persistVars>>

NextCaptcha ==
  \/ CheckKey
  \/ Submit
  \/ SubmitFails
  \/ PollDelay
  \/ Poll
  \/ PollFails

SpecCaptcha == InitCaptcha /\ [][NextCaptcha]_vars

\* Every request settles and every timer fires
SpecCaptchaFair == SpecCaptcha /\ WF_vars(NextCaptcha)

(***************************************************************************)
(* The browser of extractAllRestaurantsFromArea and extractCompleteRealMenu *)
(* of unlimited-scraper.js and of scrapeZomatoMenus of data-scraper.js: it *)
(* is launched before the try block and closed in the finally block *)
(***************************************************************************)

Extractions == {"extractAllRestaurantsFromArea", "extractCompleteRealMenu", "scrapeZomatoMenus"}

\* const urls = [ ..., ... ] of extractAllRestaurantsFromArea
Urls == 2

InitBrowser ==
  /\ scraper \in Extractions
  /\ pc = "newPage"
  /\ browser = "open" /\ closes = 0 /\ urlIndex = 0 /\ outcome = "pending"
  /\ apiKey \in BOOLEAN
  /\ submitData = "" /\ poll = 0 /\ resultData = "" /\ returned = "pending"
  /\ allElements = <<>>
  /\ NoCallback /\ NoDedup /\ NoRun /\ NoPersist /\ NoPlaces /\ NoTable

\* A return statement in a function without a finally block
ReturnAtOnce(value) == pc' = "returned" /\ outcome' = value
\* A return statement inside try or catch: the finally block runs before the
\* function returns
Return(value) == pc' = "finally" /\ outcome' = value

\* const page = await browser.newPage(), with its user agent and viewport
NewPage ==
  /\ pc = "newPage" /\ scraper \in Extractions
  /\ pc' = IF scraper = "extractAllRestaurantsFromArea" THEN "url" ELSE "goto"
  /\ UNCHANGED <<scraper, allElements, placesVars, captchaVars, browserVars, tableVars,
                 callbackVars, dedupVars, runVars, persistVars>>

\* for (const url of urls), and the return of the unique restaurants after it
NextUrl ==
  /\ pc = "url" /\ scraper = "extractAllRestaurantsFromArea"
  /\ IF urlIndex < Urls
     THEN pc' = "goto" /\ UNCHANGED outcome
     ELSE Return("items")
  /\ UNCHANGED <<scraper, allElements, placesVars, captchaVars, tableVars, browser, closes,
                 urlIndex, callbackVars, dedupVars, runVars, persistVars>>

\* await page.goto(...) and the wait after it
Goto ==
  /\ pc = "goto" /\ scraper \in Extractions
  /\ pc' = CASE scraper = "extractAllRestaurantsFromArea" -> "scroll"
              [] scraper = "extractCompleteRealMenu" -> "search"
              [] scraper = "scrapeZomatoMenus" -> "captcha"
  /\ UNCHANGED <<scraper, allElements, placesVars, captchaVars, browserVars, tableVars,
                 callbackVars, dedupVars, runVars, persistVars>>

\* extractAllRestaurantsFromArea: the page is scrolled and the buttons that
\* load more are clicked
Scroll ==
  /\ pc = "scroll" /\ scraper = "extractAllRestaurantsFromArea"
  /\ pc' = "evaluate"
  /\ UNCHANGED <<scraper, allElements, placesVars, captchaVars, browserVars, tableVars,
                 callbackVars, dedupVars, runVars, persistVars>>

\* extractCompleteRealMenu: the name of the restaurant is put in the search box
Search ==
  /\ pc = "search" /\ scraper = "extractCompleteRealMenu"
  /\ pc' = "evaluate"
  /\ UNCHANGED <<scraper, allElements, placesVars, captchaVars, browserVars, tableVars,
                 callbackVars, dedupVars, runVars, persistVars>>

\* scrapeZomatoMenus: await page.$('[data-sitekey], .g-recaptcha, #captcha')
\* and, with a CAPTCHA on the page, the site key; solveCaptcha is called when
\* there is a site key
FindCaptcha ==
  /\ pc = "captcha" /\ scraper = "scrapeZomatoMenus"
  /\ \E captchaElement \in BOOLEAN, siteKey \in BOOLEAN :
       pc' = IF captchaElement /\ siteKey THEN "key" ELSE "menu"
  /\ UNCHANGED <<scraper, allElements, placesVars, captchaVars, browserVars, tableVars,
                 callbackVars, dedupVars, runVars, persistVars>>

\* if (solution) the token is injected, the form is submitted and the
\* navigation is waited for; else return []
UseSolution ==
  /\ pc = "solution" /\ scraper = "scrapeZomatoMenus"
  /\ IF returned \notin {null, ""}
     THEN pc' = "menu" /\ UNCHANGED outcome
     ELSE Return("skipped")
  /\ UNCHANGED <<scraper, allElements, placesVars, captchaVars, tableVars, browser, closes,
                 urlIndex, callbackVars, dedupVars, runVars, persistVars>>

\* await page.waitForSelector('.menu-item, ...')
WaitForMenu ==
  /\ pc = "menu" /\ scraper = "scrapeZomatoMenus"
  /\ pc' = "evaluate"
  /\ UNCHANGED <<scraper, allElements, placesVars, captchaVars, browserVars, tableVars,
                 callbackVars, dedupVars, runVars, persistVars>>

\* await page.evaluate(...) returns the records: they are returned, or pushed
\* to allRestaurants before the next url
Evaluate ==
  /\ pc = "evaluate" /\ scraper \in Extractions
  /\ IF scraper = "extractAllRestaurantsFromArea"
     THEN urlIndex' = urlIndex + 1 /\ pc' = "url" /\ UNCHANGED outcome
     ELSE Return("items") /\ UNCHANGED urlIndex
  /\ UNCHANGED <<scraper, allElements, placesVars, captchaVars, tableVars, browser, closes,
                 callbackVars, dedupVars, runVars, persistVars>>

\* An awaited call on the page throws. Inside the loop over the urls the
\* catch of the loop logs it and the next url follows; everywhere else the
\* catch of the function logs it and returns []
PageFails ==
  /\ scraper \in Extractions
  /\ pc \in {"newPage", "goto", "scroll", "search", "captcha", "solution", "menu", "evaluate"}
  /\ pc = "solution" => returned \notin {null, ""}
  /\ IF scraper = "extractAllRestaurantsFromArea" /\ pc # "newPage"
     THEN urlIndex' = urlIndex + 1 /\ pc' = "url" /\ UNCHANGED outcome
     ELSE Return("caught") /\ UNCHANGED urlIndex
  /\ UNCHANGED <<scraper, allElements, placesVars, captchaVars, tableVars, browser, closes,
                 callbackVars, dedupVars, runVars, persistVars>>

\* finally { await browser.close() }, and the function returns
Close ==
  /\ pc = "finally" /\ scraper \in Extractions
  /\ browser' = "closed"
  /\ closes' = closes + 1
  /\ pc' = "returned"
  /\ UNCHANGED <<scraper, allElements, placesVars, captchaVars, tableVars, urlIndex, outcome,
                 callbackVars, dedupVars, runVars, persistVars>>

NextBrowser ==
  \/ NewPage
  \/ NextUrl
  \/ Goto
  \/ Scroll
  \/ Search
  \/ FindCaptcha
  \/ CheckKey
  \/ Submit
  \/ SubmitFails
  \/ PollDelay
  \/ Poll
  \/ PollFails
  \/ UseSolution
  \/ WaitForMenu
  \/ Evaluate
  \/ PageFails
  \/ Close

SpecBrowser == InitBrowser /\ [][NextBrowser]_vars

(***************************************************************************)
(* main of data-scraper.js and the table restaurants: the command *)
(* 'restaurants' saves the places found, the command 'menus' selects the *)
(* restaurants whose menu was not scraped, and 'all' does both in this order *)
(***************************************************************************)

MaxRows == 3

\* google_place_id of the places of the API
PlaceIds == {"ChIJ1", "ChIJ2", "ChIJ3"}
\* The column website
RowWebsites == {null, "https://www.zomato.com/r"}

\* new Date() without a date
NoDate == null
\* new Date()
NewDate == "date"

\* A row of the table: who inserted it is kept with it
Row(place, website, last_scraped, by) ==
  [google_place_id |-> place, website |-> website, last_scraped |-> last_scraped, by |-> by]

\* The rows that are in the table before the first command: the other
\* scrapers insert their restaurants with no last_scraped
OtherRows == { Row(null, website, null, "other") : website \in RowWebsites }

InitTable ==
  /\ scraper = "main"
  /\ pc = "command"
  /\ rows \in {<<>>} \cup { <<row>> : row \in OtherRows }
  /\ selection = {}
  /\ allElements = <<>>
  /\ NoCallback /\ NoDedup /\ NoRun /\ NoPersist /\ NoPlaces /\ NoCaptcha /\ NoBrowser

\* switch (command): 'restaurants' and 'all' start with scrapeRestaurantData,
\* 'menus' with scrapeMenuData
Command ==
  /\ pc = "command" /\ scraper = "main"
  /\ \E command \in {"restaurants", "menus", "all"} :
       pc' = IF command = "menus" THEN "menus" ELSE "restaurants"
  /\ UNCHANGED <<scraper, allElements, placesVars, captchaVars, browserVars, tableVars,
                 callbackVars, dedupVars, runVars, persistVars>>

\* saveRestaurant: the id of the row with this google_place_id is returned
\* when there is one, else the row is inserted
InsertRestaurant ==
  /\ pc = "restaurants" /\ scraper = "main"
  /\ Len(rows) < MaxRows
  /\ \E place \in PlaceIds, website \in RowWebsites :
       rows' = IF \E k \in DOMAIN rows : rows[k].google_place_id = place
               THEN rows
               ELSE Append(rows, Row(place, website, NewDate, "saveRestaurant"))
  /\ UNCHANGED <<scraper, pc, allElements, placesVars, captchaVars, browserVars, selection,
                 callbackVars, dedupVars, runVars, persistVars>>

\* scrapeRestaurantData returns: the command 'restaurants' is through, the
\* command 'all' goes on with scrapeMenuData
EndRestaurants ==
  /\ pc = "restaurants" /\ scraper = "main"
  /\ pc' \in {"command", "menus"}
  /\ UNCHANGED <<scraper, allElements, placesVars, captchaVars, browserVars, tableVars,
                 callbackVars, dedupVars, runVars, persistVars>>

\* SELECT ... FROM restaurants WHERE website IS NOT NULL AND last_scraped IS
\* NULL LIMIT 50; the table of the model has less than 50 rows
SelectRestaurants ==
  /\ pc = "menus" /\ scraper = "main"
  /\ selection' = { k \in DOMAIN rows : rows[k].website # null /\ rows[k].last_scraped = null }
  /\ pc' = "scrape"
  /\ UNCHANGED <<scraper, allElements, placesVars, captchaVars, browserVars, rows,
                 callbackVars, dedupVars, runVars, persistVars>>

\* The next restaurant of the selection
NextSelected == CHOOSE k \in selection : \A other \in selection : k <= other

\* UPDATE restaurants SET last_scraped = ? WHERE id = ?, after the menu of the
\* restaurant was scraped and saved
MarkScraped ==
  /\ pc = "scrape" /\ scraper = "main"
  /\ selection # {}
  /\ rows' = [rows EXCEPT ![NextSelected].last_scraped = NewDate]
  /\ selection' = selection \ {NextSelected}
  /\ UNCHANGED <<scraper, pc, allElements, placesVars, captchaVars, browserVars,
                 callbackVars, dedupVars, runVars, persistVars>>

\* The platform is unknown or a statement throws: the row is left as it is
LeaveUnscraped ==
  /\ pc = "scrape" /\ scraper = "main"
  /\ selection # {}
  /\ selection' = selection \ {NextSelected}
  /\ UNCHANGED <<scraper, pc, allElements, placesVars, captchaVars, browserVars, rows,
                 callbackVars, dedupVars, runVars, persistVars>>

\* scrapeMenuData returns; the next command is run later
EndMenus ==
  /\ pc = "scrape" /\ scraper = "main"
  /\ selection = {}
  /\ pc' = "command"
  /\ UNCHANGED <<scraper, allElements, placesVars, captchaVars, browserVars, tableVars,
                 callbackVars, dedupVars, runVars, persistVars>>

NextTable ==
  \/ Command
  \/ InsertRestaurant
  \/ EndRestaurants
  \/ SelectRestaurants
  \/ MarkScraped
  \/ LeaveUnscraped
  \/ EndMenus

SpecTable == InitTable /\ [][NextTable]_vars

(***************************************************************************)
(* Properties of the element callbacks *)

\* The text the callback works on: element.innerText?.trim()
Fragment == trim(text)

Done(name) == pc = "done" /\ scraper = name

\* C1: a fragment within the length bounds that matches an exclusion keyword
\* anywhere in its text yields no record, whatever else it matches
C1_ExclusionAlwaysWins ==
  /\ Done("extractCompleteRealMenu")
       /\ UM_filter(Fragment) /\ test(UM_excludeKeywords, {}, Fragment)
     => record = NoRecord
  /\ Done("scrapeSwiggy")
       /\ SW_filter(Fragment) /\ test(SW_excludedName, {}, Fragment)
     => record = NoRecord

\* The rows of the category table in the order the claim fixes
CanonicalOrder ==
  <<"starter", "dessert", "rice", "bread", "curry", "beverage", "pizza", "burger",
    "pasta", "snack">>

\* The keyword set a table gives to a label
RowOf(table, label) == (CHOOSE k \in DOMAIN table : table[k][2] = label)

ByCanonicalOrder(table) == [k \in DOMAIN CanonicalOrder |-> table[RowOf(table, CanonicalOrder[k])]]

\* C5: the category of a menu record is the label of the first row, in the
\* order starter, dessert, rice, bread, curry, beverage, pizza, burger, pasta,
\* snack, whose keyword set matches the text ('main' when none does)
C5_CanonicalCategoryOrder ==
  /\ Done("extractCompleteRealMenu") /\ record # NoRecord
     => record.category = FirstRow(ByCanonicalOrder(UM_categoryTable), 1, Fragment, "main")
  /\ Done("extractCompleteMenu") /\ record # NoRecord
     => record.category = FirstRow(ByCanonicalOrder(WM_categoryTable), 1, Fragment, "main")

\* A number behind a rupee sign, as the price rule describes its first pattern
RupeeNumber ==
  Pattern(<<One("₹"), Star("WS")>>, <<Plus("DIGIT")>>, <<One("."), Rep("DIGIT", 1, 2)>>, <<>>)

\* C6: the price of a menu record is the number behind the rupee sign when
\* the text has one (also when a 'Rs.' price follows it), and it is never 0
C6_RupeePriceFirst ==
  (Done("extractCompleteRealMenu") \/ Done("extractCompleteMenu")) /\ record # NoRecord
  => /\ matches(RupeeNumber, Fragment)
          => record.price = parseFloat(Capture(RupeeNumber, Fragment))
     /\ record.price # "0"

\* C7: a fragment that passes the candidate filter and matches at least one
\* positive group (for a menu: food or price; for a restaurant: restaurant
\* noun, cuisine or rating) is admitted, so a record is pushed for it when
\* its name is acceptable
C7_GateIsOr ==
  /\ Done("extractCompleteRealMenu")
       /\ UM_filter(Fragment) /\ ~test(UM_excludeKeywords, {}, Fragment)
       /\ (test(UM_foodKeywords, {}, Fragment)
             \/ test(UM_priceKeywords, UM_priceKeywordsOther, Fragment))
       /\ Len(UM_itemName(Fragment)) > 2 /\ Len(UM_itemName(Fragment)) < 300
     => record # NoRecord
  /\ Done("scrapeMenus") /\ index <= CM_maxIndex
       /\ CM_filter(Fragment) /\ CM_isNotNavigation(Fragment) /\ CM_isShortEnough(Fragment)
       /\ (test(CM_hasDishKeywords, {}, Fragment) \/ test(CM_hasPrice, CM_hasPriceOther, Fragment))
       /\ Len(CM_name(Fragment)) > 3
     => record # NoRecord
  /\ Done("scrapeRestaurants") /\ index <= WR_maxIndex
       /\ WR_filter(Fragment) /\ Len(split(Fragment, BackslashN)) <= 5
       /\ (test(WR_hasRestaurantKeywords, {}, Fragment) \/ test(WR_hasCuisine, {}, Fragment)
             \/ test(WR_hasRating, WR_hasRatingOther, Fragment))
       /\ WR_nameOk(WR_name(Fragment))
     => record # NoRecord

\* C9: no record is pushed for a fragment whose text is shorter than minLen
\* or longer than maxLen, whatever keywords it contains
C9_NoRecordOutsideLengthBounds ==
  /\ Done("extractCompleteRealMenu")
       /\ (Len(Fragment) < UM_minLen \/ Len(Fragment) > UM_maxLen)
     => record = NoRecord
  /\ Done("extractAllRestaurantsFromArea")
       /\ (Len(Fragment) < UR_minLen \/ Len(Fragment) > UR_maxLen)
     => record = NoRecord

\* A fragment shorter than minLen that holds a food keyword and no exclusion
\* keyword has been through the callback
C9_Witness ==
  /\ Done("extractCompleteRealMenu")
  /\ Len(Fragment) < UM_minLen
  /\ UM_gate(Fragment)
  /\ record = NoRecord

\* What the claim about the defaults of a menu record says of a fragment
NoSignal(s) ==
  /\ test(UM_foodKeywords, {}, s)
  /\ \A k \in DOMAIN UM_pricePatterns : ~matches(UM_pricePatterns[k], s)
  /\ \A k \in DOMAIN UM_categoryTable : ~test(UM_categoryTable[k][1], {}, s)
  /\ \A k \in DOMAIN UM_spiceTable : ~test(UM_spiceTable[k][1], {}, s)

CategoryLabels == {UM_categoryTable[k][2] : k \in DOMAIN UM_categoryTable} \cup {"main"}

WellFormedMenuRecord ==
  /\ record.category \in CategoryLabels
  /\ record.is_available \in BOOLEAN
  /\ record.is_popular \in BOOLEAN

DefaultMenuRecord ==
  /\ record.category = "main"
  /\ record.price = null
  /\ record.spice_level = null
  /\ record.is_available = TRUE
  /\ record.is_popular = FALSE

\* C10 as stated: every menu record has a category that is a table label or
\* 'main' and boolean flags, and the record of a fragment that matches a food
\* keyword but no price pattern, no category row and no spice phrase has
\* category 'main', price null, spice level null, is_available true and
\* is_popular false
C10_DefaultsAsStated ==
  Done("extractCompleteRealMenu") /\ record # NoRecord
  => /\ WellFormedMenuRecord
     /\ NoSignal(Fragment) => DefaultMenuRecord

\* C10, amended: every menu record has a category that is a table label or
\* 'main' and boolean flags; a fragment within the length bounds that matches
\* a food keyword and no exclusion keyword, has a name of 3 to 299 characters
\* and matches no price pattern, no category row, no spice phrase, no
\* unavailability phrase and no popularity phrase yields a record with
\* category 'main', price null, spice level null, is_available true and
\* is_popular false
C10_Defaults ==
  Done("extractCompleteRealMenu")
  => /\ record # NoRecord => WellFormedMenuRecord
     /\ ( /\ UM_filter(Fragment)
          /\ ~test(UM_excludeKeywords, {}, Fragment)
          /\ Len(UM_itemName(Fragment)) \in 3..299
          /\ NoSignal(Fragment)
          /\ ~test(UM_unavailable, {}, Fragment)
          /\ ~test(UM_popular, {}, Fragment) )
        => record # NoRecord /\ DefaultMenuRecord

\* A record was pushed for a fragment with a food keyword and nothing else
C10_Witness ==
  /\ Done("extractCompleteRealMenu")
  /\ record # NoRecord
  /\ NoSignal(Fragment)
  /\ ~test(UM_unavailable, {}, Fragment)
  /\ ~test(UM_popular, {}, Fragment)
  /\ DefaultMenuRecord

---------------------------------------------------------------------------
(* Properties of the removal of duplicates *)

\* The positions up to n of the records that are no duplicate of a record at
\* an earlier kept position
RECURSIVE KeptUpTo(_, _, _)
KeptUpTo(policy, list, n) ==
  IF n = 0 THEN {}
  ELSE LET before == KeptUpTo(policy, list, n - 1)
       IN  IF \E k \in before : Duplicate(policy, list[k], list[n]) THEN before
           ELSE before \cup {n}

\* The records at the positions K of list, in the order of list
At(list, K) ==
  [n \in 1..Cardinality(K) |-> list[CHOOSE k \in K : Cardinality({j \in K : j <= k}) = n]]

FirstOccurrences(policy, list) == At(list, KeptUpTo(policy, list, Len(list)))

\* The position a record has when the list is put in descending order of
\* image_score, records with the same score staying in the order of the list
Rank(list, k) ==
  1 + Cardinality({ j \in DOMAIN list :
                      \/ list[j].image_score > list[k].image_score
                      \/ list[j].image_score = list[k].image_score /\ j < k })

ByImageScore(list) == [n \in DOMAIN list |-> list[CHOOSE k \in DOMAIN list : Rank(list, k) = n]]

C4_Idempotent ==
  /\ pc = "unique" /\ scraper = "extractAllMenuItems"
     => uniqueOf(ExactKey, unique, 1, <<>>) = unique
  /\ pc = "unique" /\ scraper = "scrapePlatform"
     => uniqueOf(FuzzyPrefix(8, 6), unique, 1, <<>>) = unique

\* Duplicates were removed from three records of which the third is a
\* duplicate of the first and of the second, which are no duplicates of each
\* other
C4_Witness ==
  /\ pc = "unique" /\ scraper = "scrapePlatform"
  /\ Len(results) = 3
  /\ isDuplicate(results[3], results[1], 8, 6) /\ isDuplicate(results[3], results[2], 8, 6)
  /\ ~isDuplicate(results[2], results[1], 8, 6)
  /\ unique = <<results[1], results[2]>>

---------------------------------------------------------------------------
(* Properties of a run *)

\* The way the run tells duplicates
PolicyOf(name) ==
  CASE name = "extractAllRestaurantsFromArea" -> ExactName
    [] name = "scrapeAreaUltraDetailed" -> FuzzyPrefix(10, 8)
    [] name = "extractCompleteRealMenu" -> ExactKey

\* C2: the list a run returns holds no two records that are duplicates of
\* each other under the policy of the run
C2_NoDuplicatesReturned ==
  pc = "returned"
  => \A j \in DOMAIN unique : \A k \in DOMAIN unique :
       j < k => ~Duplicate(PolicyOf(scraper), unique[j], unique[k])

\* The save of menu item k of restaurant n was attempted
Attempted(n, k) ==
  \E a \in DOMAIN attempts :
    attempts[a].table = "menu_items" /\ attempts[a].restaurant = n /\ attempts[a].item = k

\* C8: when a save has failed, the run that has finished has attempted every
\* later menu item of that restaurant and a save for every later restaurant
\* it could scrape
C8_ContinueOnError ==
  pc = "finished"
  => \A a \in DOMAIN attempts :
       ~attempts[a].ok
       => /\ attempts[a].table = "menu_items"
             => \A k \in (attempts[a].item + 1)..restaurants[attempts[a].restaurant].menuItems :
                  Attempted(attempts[a].restaurant, k)
          /\ \A n \in (attempts[a].restaurant + 1)..Len(restaurants) :
               \/ restaurants[n].website = "unknown"
               \/ \E b \in DOMAIN attempts : attempts[b].restaurant = n

---------------------------------------------------------------------------
(* Properties of the field extractors *)

\* C11: no partial record is pushed: the name of every record has 3 to maxLen
\* characters, a fragment that passes the filter and the gate and whose name
\* has exactly 3 characters yields a record, and a fragment whose name has
\* fewer than 3 or more than maxLen characters yields none
C11_NoPartialRecord ==
  /\ Done("extractCompleteRealMenu") /\ UM_filter(Fragment) /\ UM_gate(Fragment)
     => /\ record # NoRecord => Len(record.name) \in 3..UM_maxLen
        /\ Len(UM_itemName(Fragment)) = 3 => record # NoRecord
        /\ Len(UM_itemName(Fragment)) \notin 3..UM_maxLen => record = NoRecord
  /\ Done("extractAllRestaurantsFromArea") /\ UR_filter(Fragment) /\ UR_gate(Fragment)
     => /\ record # NoRecord => Len(record.name) \in 3..UR_maxLen
        /\ ( /\ Len(UR_name(Fragment)) = 3
             /\ ~test(UR_nonRestaurantName, UR_nonRestaurantNameOther, UR_name(Fragment)) )
           => record # NoRecord
        /\ Len(UR_name(Fragment)) \notin 3..UR_maxLen => record = NoRecord

\* The words whose presence makes a dish non-vegetarian
Meats == { "chicken", "mutton", "fish", "egg", "meat", "beef", "lamb", "pork" }

HasMeat(s) == \E w \in Meats : includes(toLowerCase(s), w)

\* The callbacks that tag a menu item with its diet
DietScrapers == { "extractCompleteRealMenu", "extractCompleteMenu", "extractAllMenuItems" }

Emitted(sc) == Done(sc) /\ record # NoRecord

\* C12: a record is tagged vegetarian only if its text has a vegetarian word
\* and none of chicken, mutton, fish, egg, meat, beef, lamb, pork, and it is
\* tagged non-vegetarian whenever one of these eight words is in its text
C12_VegetarianTags ==
  \A sc \in DietScrapers :
    Emitted(sc)
    => /\ "vegetarian" \in Range(record.dietary_info)
          => includes(toLowerCase(text), "veg") /\ ~HasMeat(text)
       /\ HasMeat(text) => "non-vegetarian" \in Range(record.dietary_info)

\* The spice levels from the mildest to the hottest
SpiceOrder == << "mild", "medium", "spicy", "extra-spicy" >>

SpiceRank(label) == CHOOSE k \in DOMAIN SpiceOrder : SpiceOrder[k] = label

\* The groups of spice phrases of a callback, each with its label
SpiceGroups(sc) ==
  CASE sc = "extractCompleteRealMenu" -> UM_spiceTable
    [] sc = "extractCompleteMenu" -> WM_spiceTable
    [] sc = "extractAllMenuItems" -> AM_spiceTable

\* The groups of which a phrase occurs in the text, whatever its case
GroupsIn(groups, s) ==
  { k \in DOMAIN groups : \E phrase \in groups[k][1] : includes(toLowerCase(s), phrase) }

\* C13: the spice level is the label of the first of the groups mild, medium,
\* spicy, extra-spicy of which a phrase occurs in the text; a text with a mild
\* phrase and a spicy phrase is 'mild'; the level is null when no group matches
C13_SpiceFirstGroup ==
  \A sc \in DietScrapers :
    Emitted(sc)
    => LET groups == SpiceGroups(sc)
           found == GroupsIn(groups, text)
       IN  /\ \A j, k \in DOMAIN groups :
                j < k => SpiceRank(groups[j][2]) < SpiceRank(groups[k][2])
           /\ found = {} => record.spice_level = null
           /\ found # {} => record.spice_level = groups[Least(found)][2]
           /\ includes(toLowerCase(text), "mild") /\ includes(toLowerCase(text), "spicy")
              => record.spice_level = "mild"

\* A menu record for a text with a mild phrase and a spicy phrase
C13_Witness ==
  /\ Emitted("extractCompleteRealMenu")
  /\ includes(toLowerCase(text), "mild") /\ includes(toLowerCase(text), "very spicy")
  /\ record.spice_level = "mild"

\* The list of cuisine keywords of a callback
CuisineList(sc) ==
  CASE sc = "extractCompleteRealMenu" -> UM_cuisinePattern
    [] sc = "extractAllMenuItems" -> AM_cuisinePattern

\* C17: the cuisine type is the keyword that stands first in the list of
\* cuisine keywords among those in the text, wherever they are in the text,
\* and null when none is in the text
C17_CuisineFirstInList ==
  \A sc \in {"extractCompleteRealMenu", "extractAllMenuItems"} :
    Emitted(sc)
    => LET list == CuisineList(sc)
           found == { k \in DOMAIN list : includes(toLowerCase(text), list[k]) }
       IN  /\ found = {} => record.cuisine_type = null
           /\ found # {} => record.cuisine_type = list[Least(found)]

\* The phrases that say a dish cannot be had
UnavailablePhrases ==
  { "out of stock", "sold out", "unavailable", "temporarily unavailable", "coming soon" }

\* C18 as stated: is_available is false iff the text holds 'out of stock',
\* 'sold out', 'unavailable', 'temporarily unavailable' or 'coming soon', and
\* true for every other text
C18_AvailableUnlessListedPhrase ==
  \A sc \in {"extractCompleteRealMenu", "extractAllMenuItems"} :
    Emitted(sc)
    => (record.is_available = FALSE
          <=> \E phrase \in UnavailablePhrases : includes(toLowerCase(text), phrase))

\* The phrases each callback takes to say a dish cannot be had
UnavailableOf(sc) ==
  CASE sc = "extractCompleteRealMenu" -> UM_unavailable
    [] sc = "extractAllMenuItems" -> AM_unavailable

\* C18, amended: is_available is false iff the text holds one of the phrases
\* of the callback, which are 'out of stock', 'not available', 'unavailable',
\* 'sold out', 'temporarily unavailable' in both and 'coming soon',
\* 'seasonal', 'limited time', 'weekend only', 'dinner only', 'lunch only' in
\* extractCompleteRealMenu only; a text with 'coming soon' yields no record
C18_AvailableUnlessPhraseOfCallback ==
  \A sc \in {"extractCompleteRealMenu", "extractAllMenuItems"} :
    /\ Emitted(sc)
       => (record.is_available = FALSE
             <=> \E phrase \in UnavailableOf(sc) : includes(toLowerCase(text), phrase))
    /\ Done(sc) /\ includes(toLowerCase(text), "coming soon") => record = NoRecord

\* A menu record that is not available for a phrase the claim does not list
C18_Witness ==
  /\ Emitted("extractCompleteRealMenu")
  /\ includes(toLowerCase(text), "seasonal")
  /\ \A phrase \in UnavailablePhrases : ~includes(toLowerCase(text), phrase)
  /\ record.is_available = FALSE

\* Words that tag a dish non-vegetarian and do not keep it from being tagged
\* vegetarian
Seafood == { "seafood", "prawn", "crab", "lobster" }

\* C19: the dietary tags do not exclude one another: a fragment that passes
\* the filter and the gate and holds 'vegetarian', a seafood word, none of the
\* eight meat words and no 'non' yields a record tagged both 'vegetarian' and
\* 'non-vegetarian'
C19_TagsNotExclusive ==
  /\ Done("extractCompleteRealMenu") /\ UM_filter(Fragment) /\ UM_gate(Fragment)
  /\ includes(toLowerCase(text), "vegetarian") /\ ~includes(toLowerCase(text), "non")
  /\ ~HasMeat(text)
  /\ \E w \in Seafood : includes(toLowerCase(text), w)
  => /\ record # NoRecord
     /\ {"vegetarian", "non-vegetarian"} \subseteq Range(record.dietary_info)

\* A record that is tagged both 'vegetarian' and 'non-vegetarian'
C19_Witness ==
  /\ Emitted("extractCompleteRealMenu")
  /\ UM_filter(Fragment) /\ UM_gate(Fragment)
  /\ {"vegetarian", "non-vegetarian"} \subseteq Range(record.dietary_info)

\* The first line of s that is not empty when trimmed, trimmed
FirstLine(s) == trim(filterTrimmedLonger(split(s, "\n"), 0)[1])

\* The greatest length of a name that is cut from a text without line break
MaxNameLenOf(sc) ==
  CASE sc = "extractCompleteRealMenu" -> UM_maxNameLen
    [] sc = "extractAllMenuItems" -> AM_maxNameLen

\* What is kept of a name: extractCompleteRealMenu cleans it
Cleaned(sc, name) ==
  IF sc = "extractCompleteRealMenu"
  THEN trim(ReplaceBackslashS(ReplaceOutside(name, UM_nameChars)))
  ELSE name

\* C20: the name of a record is the first non-empty line of the text, and the
\* first maxNameLen characters of a text without line break, so that the
\* name of a single line longer than maxNameLen is cut to maxNameLen
C20_NameIsFirstLine ==
  \A sc \in {"extractCompleteRealMenu", "extractAllMenuItems"} :
    Emitted(sc)
    => IF includes(Fragment, "\n")
       THEN record.name = Cleaned(sc, FirstLine(Fragment))
       ELSE record.name = Cleaned(sc, trim(substring0(Fragment, MaxNameLenOf(sc))))

---------------------------------------------------------------------------
(* Properties of the ways to tell duplicates *)

\* Prices are the same when both are absent or both are the same number
SamePrice(a, b) ==
  \/ a = null /\ b = null
  \/ a \notin {null, NaN} /\ a = b

SameNameAndPrice(a, b) == toLowerCase(a.name) = toLowerCase(b.name) /\ SamePrice(a.price, b.price)

\* C14: under ExactKey a record is dropped iff a record kept before it has the
\* same name in lower case and the same price, two absent prices being the
\* same; records with the same name and different prices are both kept
C14_ExactKey ==
  pc = "unique" /\ scraper = "extractAllMenuItems"
  => \E K \in SUBSET DOMAIN results :
       /\ \A k \in DOMAIN results :
            k \notin K <=> \E j \in K : j < k /\ SameNameAndPrice(results[j], results[k])
       /\ unique = At(results, K)
       /\ \A j, k \in DOMAIN results :
            /\ j \in K /\ j < k /\ toLowerCase(results[j].name) = toLowerCase(results[k].name)
            /\ \A i \in K : i < k /\ toLowerCase(results[i].name) = toLowerCase(results[k].name)
                              => results[i].price # results[k].price
            => k \in K

\* Of three records with the same name in lower case, the second has another
\* price than the first and is kept, the third has no price, as the first,
\* and is dropped
C14_Witness ==
  /\ pc = "unique" /\ scraper = "extractAllMenuItems"
  /\ Len(results) = 3
  /\ \A k \in 2..3 : toLowerCase(results[k].name) = toLowerCase(results[1].name)
  /\ results[1].name # results[3].name
  /\ results[1].price = null /\ results[2].price # null /\ results[3].price = null
  /\ unique = <<results[1], results[2]>>

\* The least length and the length of the prefix of each loop that tells
\* duplicates by prefix; the loops of working-scraper.js test no length
FuzzyOf(sc) ==
  CASE sc = "scrapePlatform" -> FuzzyPrefix(8, 6)
    [] sc = "extractCompleteMenu" -> FuzzyPrefix(0, 8)
    [] sc = "scrapeRestaurants" -> FuzzyPrefix(0, 10)

\* C15: under FuzzyPrefix a record of a page that holds no more records than
\* are returned is dropped iff a record kept before it has the same name in
\* lower case, or both names are longer than the least length and one name in
\* lower case holds the prefix of the other
C15_FuzzyPrefix ==
  /\ pc = "unique" /\ scraper \in {"scrapePlatform", "extractCompleteMenu", "scrapeRestaurants"}
  /\ Len(results) <= PlatformLimit
  => unique = FirstOccurrences(FuzzyOf(scraper), results)

\* sub can be had from list by leaving records out
RECURSIVE IsSubList(_, _)
IsSubList(sub, list) ==
  IF sub = <<>> THEN TRUE
  ELSE IF list = <<>> THEN FALSE
  ELSE IF Head(sub) = Head(list) THEN IsSubList(Tail(sub), Tail(list))
  ELSE IsSubList(sub, Tail(list))

\* C16: removing duplicates only selects: what it returns is a sub-list of
\* what it is given, every record of it being a record of the input with all
\* its fields as they were
C16_OnlySelects ==
  pc = "unique" /\ scraper \in {"scrapePlatform", "extractAllRestaurantsFromArea"}
  => /\ IsSubList(unique, results)
     /\ \A k \in DOMAIN unique : \E j \in DOMAIN results : unique[k] = results[j]

\* Of three records, the second a duplicate of the first in another case, the
\* first and the third came back as they were
C16_Witness ==
  /\ pc = "unique" /\ scraper = "extractAllRestaurantsFromArea"
  /\ Len(results) = 3
  /\ results[2].name # results[1].name
  /\ toLowerCase(results[2].name) = toLowerCase(results[1].name)
  /\ unique = <<results[1], results[3]>>

---------------------------------------------------------------------------
(* Properties of the records of given fragments *)

\* C21: the record of the fragment of the three lines 'Classic Margherita
\* Pizza', 'Fresh mozzarella and basil', '$12.99' has the first line as its
\* name, the second line and not the price as its description, the price
\* 12.99 and the category 'pizza'
C21_MargheritaRecord ==
  /\ Done("extractCompleteRealMenu")
  /\ text = "Classic Margherita Pizza\nFresh mozzarella and basil\n$12.99"
  => /\ record # NoRecord
     /\ record.name = "Classic Margherita Pizza"
     /\ record.description = "Fresh mozzarella and basil"
     /\ record.price = "12.99"
     /\ record.category = "pizza"

\* C22: the record of the fragment 'Paneer Tikka - Spicy starter, serves 2'
\* has the category 'starter', the spice level 'spicy' and 'vegetarian' among
\* its dietary tags
C22_PaneerTikkaRecord ==
  /\ Done("extractCompleteRealMenu")
  /\ text = "Paneer Tikka - Spicy starter, serves 2"
  => /\ record # NoRecord
     /\ record.category = "starter"
     /\ record.spice_level = "spicy"
     /\ "vegetarian" \in Range(record.dietary_info)

---------------------------------------------------------------------------
(* Properties of the order of the records of a page *)

\* The elements of the page that give a record
Giving == { k \in DOMAIN allElements : extractAllRestaurantsFromArea(allElements[k]) # NoRecord }

C24_DelayBetweenRequests ==
  (scraper = "scrapeRestaurantData" /\ pc \in {"page", "details"})
    => last \in {"none", "delay"}

(***************************************************************************)
(* Properties of solveCaptcha *)
(***************************************************************************)

\* What solveCaptcha has done so far and what it returned agree
CaptchaReturn ==
  /\ poll <= POLLS
  /\ pc \in {"delay", "poll"} =>
       /\ returned = "pending"
       /\ startsWith(submitData, "OK|")
       /\ poll > 0 => resultData = "CAPCHA_NOT_READY"
  /\ pc = "returned" =>
       IF startsWith(resultData, "OK|")
       THEN returned = SubSeq(resultData, 4, Len(resultData))
       ELSE /\ returned = null
            /\ \/ ~apiKey /\ submitData = "" /\ poll = 0
               \/ apiKey /\ ~startsWith(submitData, "OK|") /\ poll = 0
               \/ apiKey /\ startsWith(submitData, "OK|") /\ poll > 0
                    /\ resultData # "CAPCHA_NOT_READY"
               \/ apiKey /\ startsWith(submitData, "OK|") /\ poll = POLLS
                    /\ resultData = "CAPCHA_NOT_READY"

\* C25: solveCaptcha always terminates with a return value: it polls at most
\* 24 times, returns the solution of the first response that starts with
\* 'OK|', and returns null when there is no API key, when the submission is not
\* accepted, when a poll is answered by something else than 'OK|...' or
\* 'CAPCHA_NOT_READY', and after the 24th poll that is not ready
C25_SolveCaptchaReturns == [](CaptchaReturn) /\ <>(pc = "returned")

\* The 24th poll was answered by CAPCHA_NOT_READY and null was returned
C25_Witness ==
  /\ scraper = "solveCaptcha" /\ pc = "returned"
  /\ poll = POLLS /\ resultData = "CAPCHA_NOT_READY" /\ returned = null

(***************************************************************************)
(* Properties of the pages of findRestaurantsByLocation *)
(***************************************************************************)

\* C26: the loop over the pages of a city ends whatever tokens the API keeps
\* returning: once the first page of a city is asked for, the run gets past
\* the pages of that city
C26_PaginationTerminates ==
  (scraper = "scrapeRestaurantData" /\ pc = "page")
    ~> (pc \notin {"page", "rate limit"})

(***************************************************************************)
(* Properties of the scraping job *)
(***************************************************************************)

\* C27: a run of scrapeRestaurantData that created its job, in status
\* 'running', and returned has left the job in a terminal status written
\* exactly once
C27_TerminalStatusOnce ==
  (scraper = "scrapeRestaurantData" /\ pc = "returned")
    => job.status \in {"completed", "failed"} /\ job.written = 1

(***************************************************************************)
(* Properties of the browser of an extraction function *)
(***************************************************************************)

\* C28: the browser an extraction function launched is closed exactly once
\* before the function returns, whether it returns its records, the empty list
\* of a caught error or the empty list of the early return: it is open and
\* was never closed while the function runs, and closed by one call when the
\* function has returned
C28_BrowserClosedOnce ==
  scraper \in Extractions =>
    IF pc = "returned"
    THEN browser = "closed" /\ closes = 1 /\ outcome \in {"items", "caught", "skipped"}
    ELSE browser = "open" /\ closes = 0

\* scrapeZomatoMenus has returned early, after solveCaptcha returned no solution
C28_Witness ==
  /\ scraper = "scrapeZomatoMenus" /\ pc = "returned"
  /\ outcome = "skipped" /\ browser = "closed"

(***************************************************************************)
(* Properties of the table restaurants *)
(***************************************************************************)

\* C29: a row inserted by saveRestaurant has its last_scraped set and is
\* never among the rows a run of scrapeMenuData selected
C29_SavedNeverSelected ==
  \A k \in DOMAIN rows :
    rows[k].by = "saveRestaurant" => rows[k].last_scraped # null /\ k \notin selection

\* scrapeMenuData selected a row of another origin while the table holds a
\* row with a website that saveRestaurant inserted
C29_Witness ==
  /\ scraper = "main" /\ pc = "scrape" /\ selection # {}
  /\ \E k \in DOMAIN rows :
       rows[k].by = "saveRestaurant" /\ rows[k].website # null /\ k \notin selection

(***************************************************************************)
(* Properties of the progress of the scraping job *)
(***************************************************************************)

\* C30: within one job of scrapeRestaurantData the progress percentage that
\* is written never decreases from one update to the next
C30_ProgressNeverDecreases ==
  [][scraper = "scrapeRestaurantData" => job'.progress >= job.progress]_vars

===========================================================================
